---------------------------- MODULE Spec2Model ----------------------------
(***************************************************************************)
(* Barbell toolkit: the position -> force pipeline and the repetition      *)
(* segmenter of src/lib/barbell-physics.ts (and the two-threshold         *)
(* segmenter of src/unnamed/part_011), the seek loop and the colour        *)
(* tracker of components/barbell-tracker/TrackingState.tsx, and the        *)
(* template tracker of components/barbell-tracker/                         *)
(* BarbellVelocityTracker.tsx.                                             *)
(*                                                                         *)
(* Numbers.  The pipeline works on JavaScript numbers; the model computes  *)
(* it on exact rationals [n, d] (d > 0, reduced) extended with the IEEE    *)
(* values the code can produce by dividing by zero: d = 0 with n = 1 is    *)
(* +Infinity, n = -1 is -Infinity and n = 0 is NaN.  Times are integer     *)
(* ticks of 1 / TicksPerSecond second, so that a 1/30 s frame interval and *)
(* the half-millisecond window edges are exact.                            *)
(***************************************************************************)
EXTENDS Integers, Sequences, FiniteSets, TLC

VARIABLES
    \* ---- barbell-physics.ts: one call chain of the pure functions ----
    physPc,             \* "idle" | "input" | "processed" | "frames" | "detected" | "reps" | "measured"
                        \* | "framesTwoThreshold" | "detectedTwoThreshold"
    trackingPoints,     \* argument of processTrackingData: Seq of [x, y, time], y a rational
    pixelsPerMeter,     \* argument of processTrackingData
    mass,               \* argument of processTrackingData
    processedData,      \* ProcessedFrame[]: result of processTrackingData / argument of detectRepetitions
    velocityThreshold,  \* argument of detectRepetitions (rational, m/s)
    minRepDurationMs,   \* argument of detectRepetitions
    reps,               \* result of detectRepetitions: Seq of [startIndex, endIndex], 0-based as in the code
    repMetrics,         \* result of calculateRepMetrics: Seq of RepMetrics
    \* ---- what is explored ----
    scenario,           \* "physics": the library functions; "rerun": a TrackingState whose
                        \* tracking effect re-runs; "footage": one run of it over varied
                        \* frames; "occlusion": one run over frames that mostly hide the
                        \* sleeve; "velocityTracker": a BarbellVelocityTracker;
                        \* "velocityTrackerLost": one whose template is mostly lost;
                        \* "velocityTrackerReplay": one whose video is played again
                        \* after its end; "workflow": a BarbellTracker (processedData
                        \* is then its useState processedData)
    \* ---- TrackingState.tsx: state and refs of the component ----
    status,             \* useState status
    errorMessage,       \* useState errorMessage: "null" | "duration" | "seek" | "load"
    progress,           \* useState progress, in percent
    currentPosition,    \* useState currentPosition
    trackingPointsRef,  \* trackingPointsRef.current
    referenceColorRef,  \* referenceColorRef.current
    consecutiveLossCountRef,
    velocityRef,        \* velocityRef.current: [vx, vy]
    prevPositionRef,    \* prevPositionRef.current
    \* ---- TrackingState.tsx: the runs of the tracking effect ----
    sessions,           \* run -> the variables of its closure: pc, isCancelled, t, endTime,
                        \* lastPosition, frameCount; and what the run has done so far
    completeCalls,      \* the calls of onTrackingComplete: Seq of [session, points]
    lastCall,           \* the latest call of trackFrame: arguments, refs at entry, result
    prevCall,           \* the call before it
    trackedFrames,      \* number of trackFrame calls so far
    \* ---- BarbellVelocityTracker.tsx, at its step 'tracking' (velocityRef is its
    \*      velocityRef.current, [x, y], when this component is the one explored) ----
    trackerPosRef,      \* trackerPosRef.current: Null | [x, y]
    lostFramesRef,      \* lostFramesRef.current
    lastGoodSpeedRef,   \* lastGoodSpeedRef.current
    trackingDataRef,    \* trackingDataRef.current: Seq of [time, x, y]
    isTracking,         \* useState isTracking (isTrackingRef follows it)
    trackingStatus,     \* useState trackingStatus
    currentTime,        \* video.currentTime, in ticks
    lastFind,           \* the latest call of findTemplate: arguments and result
    prevFind,           \* the result of the call before it
    \* ---- BarbellTracker.tsx: the workflow ----
    state,              \* useState state: "upload" | "calibration" | "tracking" | "review"
    videoFile,          \* useState videoFile: Null | [name]
    calibration,        \* useState calibration: Null | [pixelsPerMeter, circleCenter, circleRadius]
    workflowEvent       \* the handler that ran last: "none" | "videoSelected" |
                        \* "calibrationComplete" | "trackingComplete" | "back" | "reset" | "save"

physVars == <<physPc, trackingPoints, pixelsPerMeter, mass, processedData,
              velocityThreshold, minRepDurationMs, reps, repMetrics>>

trackVars == <<status, errorMessage, progress, currentPosition, trackingPointsRef,
               referenceColorRef, consecutiveLossCountRef, velocityRef, prevPositionRef,
               sessions, completeCalls, lastCall, prevCall, trackedFrames>>

bvtVars == <<trackerPosRef, lostFramesRef, lastGoodSpeedRef, trackingDataRef, isTracking,
             trackingStatus, currentTime, lastFind, prevFind>>

workflowVars == <<state, videoFile, calibration, workflowEvent>>

vars == <<physVars, scenario, trackVars, bvtVars, workflowVars>>

-----------------------------------------------------------------------------
(* Bounds of the model *)

\* longest trajectory handed to processTrackingData
MaxPoints == 3
\* longest ProcessedFrame sequence handed directly to detectRepetitions
MaxFrames == 7
\* longest ProcessedFrame sequence handed directly to calculateRepMetrics
MaxRepFrames == 3
\* runs of the tracking effect of one TrackingState component
MaxSessions == 2
\* frames handed to trackFrame, over all runs
MaxTrackedFrames == 4
\* frames of the video in which the sleeve is hidden most of the time
MaxOccludedFrames == 6
\* frames handed to findTemplate when the template is lost most of the time
MaxLostFrames == 11
\* points pushed by onFrame when the video is played again after its end
MaxReplayedPoints == 4

-----------------------------------------------------------------------------
(* Program constants *)

PEAK_FORCE_WINDOW_MS == 50
POSITION_SMOOTHING_MS == 33
VELOCITY_SMOOTHING_MS == 50
ACCELERATION_SMOOTHING_MS == 66
\* frames per second assumed by detectRepetitions and used by the seek loop
FrameRate == 30
\* default arguments of detectRepetitions
DefaultMinRepDurationMs == 200

TicksPerSecond == FrameRate * 100

-----------------------------------------------------------------------------
(* JavaScript numbers as extended rationals *)

\* const x = v; F(x): v is evaluated once and F reads the value
Let1(v, F(_)) == CHOOSE r \in {F(x) : x \in {v}} : TRUE
Let2(v, w, F(_, _)) == CHOOSE r \in {F(x, y) : x \in {v}, y \in {w}} : TRUE

Abs(i) == IF i < 0 THEN -i ELSE i
Sign(i) == IF i > 0 THEN 1 ELSE IF i < 0 THEN -1 ELSE 0
Max(a, b) == IF a >= b THEN a ELSE b
Min(a, b) == IF a <= b THEN a ELSE b

RECURSIVE GCD(_, _)
GCD(x, y) == Let2(x, y, LAMBDA a, b : IF b = 0 THEN a ELSE GCD(b, a % b))

\* the number n / d; d = 0 gives Infinity, -Infinity or NaN as in IEEE division
Norm(x, y) ==
    Let2(x, y, LAMBDA n, d :
        IF d = 0 THEN [n |-> Sign(n), d |-> 0]
        ELSE Let1(GCD(Abs(n), Abs(d)), LAMBDA g :
                [n |-> Sign(d) * (n \div g), d |-> Abs(d) \div g]))

R(i) == [n |-> i, d |-> 1]
NaN == [n |-> 0, d |-> 0]
IsNaN(a) == a.d = 0 /\ a.n = 0
IsInf(a) == a.d = 0 /\ a.n # 0
IsFinite(a) == a.d > 0

RNeg(x) == Let1(x, LAMBDA a : [n |-> -a.n, d |-> a.d])

RAdd(x, y) ==
    Let2(x, y, LAMBDA a, b :
        IF IsNaN(a) \/ IsNaN(b) THEN NaN
        ELSE IF IsInf(a) /\ IsInf(b) THEN (IF a.n = b.n THEN a ELSE NaN)
        ELSE IF IsInf(a) THEN a
        ELSE IF IsInf(b) THEN b
        ELSE Let1(GCD(a.d, b.d), LAMBDA g :      \* over the least common denominator
                Norm(a.n * (b.d \div g) + b.n * (a.d \div g), a.d * (b.d \div g))))

RSub(a, b) == RAdd(a, RNeg(b))

RMul(x, y) ==
    Let2(x, y, LAMBDA a, b :
        IF IsNaN(a) \/ IsNaN(b) THEN NaN
        ELSE IF IsInf(a) \/ IsInf(b)
             THEN [n |-> Sign(a.n) * Sign(b.n), d |-> 0]   \* Infinity * 0 is NaN
        ELSE Let2(GCD(Abs(a.n), b.d), GCD(Abs(b.n), a.d), LAMBDA g1, g2 :
                Norm((a.n \div g1) * (b.n \div g2), (a.d \div g2) * (b.d \div g1))))

RDiv(x, y) ==
    Let2(x, y, LAMBDA a, b :
        IF IsNaN(a) \/ IsNaN(b) THEN NaN
        ELSE IF IsInf(a) THEN (IF IsInf(b) THEN NaN
                               ELSE [n |-> a.n * (IF b.n < 0 THEN -1 ELSE 1), d |-> 0])
        ELSE IF IsInf(b) THEN R(0)
        ELSE IF b.n = 0 THEN Norm(a.n, 0)
        ELSE RMul(a, [n |-> Sign(b.n) * b.d, d |-> Abs(b.n)]))

\* an / ad < bn / bd for ad, bd > 0, by whole parts and then remainders, so
\* that no product leaves the 32-bit integers
RECURSIVE FractionLess(_, _, _, _)
FractionLess(an, ad, bn, bd) ==
    Let2(an \div ad, bn \div bd, LAMBDA qa, qb :
        IF qa # qb THEN qa < qb
        ELSE Let2(an - qa * ad, bn - qb * bd, LAMBDA ra, rb :
                IF rb = 0 THEN FALSE
                ELSE IF ra = 0 THEN TRUE
                ELSE FractionLess(bd, rb, ad, ra)))

\* a < b; false when either is NaN, as every IEEE comparison with NaN
RLt(x, y) ==
    Let2(x, y, LAMBDA a, b :
        /\ ~IsNaN(a) /\ ~IsNaN(b)
        /\ IF IsFinite(a) /\ IsFinite(b)
           THEN IF Abs(a.n) < 46340 /\ a.d < 46340 /\ Abs(b.n) < 46340 /\ b.d < 46340
                THEN a.n * b.d < b.n * a.d
                ELSE FractionLess(a.n, a.d, b.n, b.d)
           ELSE (IF IsInf(a) THEN a.n ELSE 0) < (IF IsInf(b) THEN b.n ELSE 0))
RGt(a, b) == RLt(b, a)
RLe(x, y) == Let2(x, y, LAMBDA a, b : ~IsNaN(a) /\ ~IsNaN(b) /\ ~RLt(b, a))
RGe(a, b) == RLe(b, a)

\* ceil(n / d) for d > 0
CeilDiv(n, d) == -((-n) \div d)

\* a time in ticks as seconds
Seconds(t) == Norm(t, TicksPerSecond)

-----------------------------------------------------------------------------
(* barbell-physics.ts *)

\* data.map(p => ({ time: p.time, value: Field(p) }))
Series(data, Field(_)) ==
    [k \in 1..Len(data) |-> [time |-> data[k].time, value |-> Field(data[k])]]

\* the for loop of timeBasedMovingAverage from index j on: [sum, count]
RECURSIVE WindowSum(_, _, _, _, _)
WindowSum(data, windowStart, windowEnd, j, accArg) ==
    Let1(accArg, LAMBDA acc :
        IF j > Len(data) THEN acc
        ELSE IF /\ RGe(Seconds(data[j].time), windowStart)
                /\ RLe(Seconds(data[j].time), windowEnd)
             THEN WindowSum(data, windowStart, windowEnd, j + 1,
                            [sum |-> RAdd(acc.sum, data[j].value), count |-> acc.count + 1])
             ELSE WindowSum(data, windowStart, windowEnd, j + 1, acc))

timeBasedMovingAverage(dataArg, windowMs) ==
    Let2(dataArg, RDiv(Norm(windowMs, 1000), R(2)), LAMBDA data, halfWindow :
        [i \in 1..Len(data) |->
            Let2(RSub(Seconds(data[i].time), halfWindow),
                 RAdd(Seconds(data[i].time), halfWindow),
                 LAMBDA windowStart, windowEnd :
                    Let1(WindowSum(data, windowStart, windowEnd, 1,
                                   [sum |-> R(0), count |-> 0]),
                         LAMBDA w : IF w.count > 0 THEN RDiv(w.sum, R(w.count))
                                    ELSE data[i].value))])

pixelsToMeters(points, ppm) ==
    [i \in 1..Len(points) |->
        [time |-> points[i].time, y |-> RDiv(points[i].y, R(ppm))]]

\* variant of calculateVelocity: the later position minus the earlier one
calculateVelocity_laterMinusEarlier(positions) ==
    LET n == Len(positions)
        Quot(a, b, dt) == IF dt > 0 THEN RDiv(RSub(positions[b].y, positions[a].y), Seconds(dt))
                          ELSE R(0)
        Vel(i) ==
            IF i = 0 THEN Quot(i + 1, i + 2, positions[i + 2].time - positions[i + 1].time)
            ELSE IF i = n - 1
                 THEN Quot(i, i + 1, positions[i + 1].time - positions[i].time)
            ELSE Quot(i, i + 2, positions[i + 2].time - positions[i].time)
    IN  [k \in 1..n |-> [time |-> positions[k].time, y |-> positions[k].y,
                         velocity |-> Vel(k - 1)]]

\* positions: Seq of [time, y]; index i of the code is i + 1 here
calculateVelocity(positions) ==
    LET n == Len(positions)
        Quot(a, b, dt) == IF dt > 0 THEN RDiv(RSub(positions[a].y, positions[b].y), Seconds(dt))
                          ELSE R(0)
        Vel(i) ==
            IF i = 0 THEN Quot(i + 1, i + 2, positions[i + 2].time - positions[i + 1].time)
            ELSE IF i = n - 1
                 THEN Quot(i, i + 1, positions[i + 1].time - positions[i].time)
            ELSE Quot(i, i + 2, positions[i + 2].time - positions[i].time)
    IN  [k \in 1..n |-> [time |-> positions[k].time, y |-> positions[k].y,
                         velocity |-> Vel(k - 1)]]

calculateAcceleration(velocityData) ==
    LET n == Len(velocityData)
        Quot(a, b, dt) == IF dt > 0
                          THEN RDiv(RSub(velocityData[a].velocity, velocityData[b].velocity),
                                    Seconds(dt))
                          ELSE R(0)
        Acc(i) ==
            IF i = 0 /\ n > 1
                THEN Quot(i + 2, i + 1, velocityData[i + 2].time - velocityData[i + 1].time)
            ELSE IF i = n - 1
                THEN Quot(i + 1, i, velocityData[i + 1].time - velocityData[i].time)
            ELSE Quot(i + 2, i, velocityData[i + 2].time - velocityData[i].time)
    IN  [k \in 1..n |-> [time |-> velocityData[k].time, y |-> velocityData[k].y,
                         velocity |-> velocityData[k].velocity,
                         acceleration |-> Acc(k - 1)]]

GRAVITY == Norm(981, 100)

\* variant of calculateForce: gravity added outside the product, mass * acceleration + GRAVITY
calculateForce_gravityOutside(accelerationData, m) ==
    [k \in 1..Len(accelerationData) |->
        [time |-> accelerationData[k].time, y |-> accelerationData[k].y,
         velocity |-> accelerationData[k].velocity,
         acceleration |-> accelerationData[k].acceleration,
         force |-> RAdd(RMul(R(m), accelerationData[k].acceleration), GRAVITY)]]

calculateForce(accelerationData, m) ==
    [k \in 1..Len(accelerationData) |->
        [time |-> accelerationData[k].time, y |-> accelerationData[k].y,
         velocity |-> accelerationData[k].velocity,
         acceleration |-> accelerationData[k].acceleration,
         force |-> RMul(R(m), RAdd(accelerationData[k].acceleration, GRAVITY))]]

applyForceRollingAverage(forceData, windowMs) ==
    LET ForceOf(p) == p.force
    IN  Let1(timeBasedMovingAverage(Series(forceData, ForceOf), windowMs),
             LAMBDA smoothed :
                [k \in 1..Len(forceData) |->
                    [time |-> forceData[k].time, y |-> forceData[k].y,
                     velocity |-> forceData[k].velocity,
                     acceleration |-> forceData[k].acceleration,
                     force |-> forceData[k].force,
                     smoothedForce |-> smoothed[k]]])

\* processTrackingData past its length guard (lines 296-338); each const of
\* the code is one Let1 binding, last stage first
Pipeline(points, ppm, m) ==
    LET YOf(p) == p.y
        VelocityOf(p) == p.velocity
        AccelerationOf(p) == p.acceleration
        \* step 7
        FromForce(forceData) ==
            applyForceRollingAverage(forceData, PEAK_FORCE_WINDOW_MS)
        \* step 6
        FromSmoothedAcceleration(smoothedAccelerationData) ==
            Let1(calculateForce(smoothedAccelerationData, m), FromForce)
        \* step 5
        FromAcceleration(accelerationData) ==
            Let1(timeBasedMovingAverage(Series(accelerationData, AccelerationOf),
                                        ACCELERATION_SMOOTHING_MS),
                 LAMBDA smoothedAcceleration :
                    Let1([k \in 1..Len(accelerationData) |->
                            [time |-> accelerationData[k].time, y |-> accelerationData[k].y,
                             velocity |-> accelerationData[k].velocity,
                             acceleration |-> smoothedAcceleration[k]]],
                         FromSmoothedAcceleration))
        \* step 4
        FromSmoothedVelocity(smoothedVelocityData) ==
            Let1(calculateAcceleration(smoothedVelocityData), FromAcceleration)
        \* step 3
        FromVelocity(velocityData) ==
            Let1(timeBasedMovingAverage(Series(velocityData, VelocityOf),
                                        VELOCITY_SMOOTHING_MS),
                 LAMBDA smoothedVelocity :
                    Let1([k \in 1..Len(velocityData) |->
                            [time |-> velocityData[k].time, y |-> velocityData[k].y,
                             velocity |-> smoothedVelocity[k]]],
                         FromSmoothedVelocity))
        \* step 2
        FromSmoothedPosition(smoothedPositionData) ==
            Let1(calculateVelocity(smoothedPositionData), FromVelocity)
        \* step 1
        FromMeters(metersData) ==
            Let1(timeBasedMovingAverage(Series(metersData, YOf), POSITION_SMOOTHING_MS),
                 LAMBDA smoothedY :
                    Let1([k \in 1..Len(metersData) |->
                            [time |-> metersData[k].time, y |-> smoothedY[k]]],
                         FromSmoothedPosition))
    IN  Let1(pixelsToMeters(points, ppm), FromMeters)

\* variant of processTrackingData: the length guard rejects three points too
processTrackingData_guardLe3(points, ppm, m) ==
    IF Len(points) <= 3 THEN <<>> ELSE Pipeline(points, ppm, m)

processTrackingData(points, ppm, m) ==
    IF Len(points) < 3 THEN <<>> ELSE Pipeline(points, ppm, m)

minFramesOf(durationMs) == CeilDiv(durationMs * FrameRate, 1000)

\* variant of DetectLoop: a repetition closed inside the data runs up to the
\* closing frame, endIndex i
RECURSIVE DetectLoop_endAtClose(_, _, _, _, _)
DetectLoop_endAtClose(data, threshold, minFrames, i, stArg) ==
    Let1(stArg, LAMBDA st :       \* st = [inRep, startIndex, reps]
        IF i >= Len(data)
        THEN IF st.inRep /\ Len(data) - 1 - st.startIndex >= minFrames
             THEN Append(st.reps, [startIndex |-> st.startIndex, endIndex |-> Len(data) - 1])
             ELSE st.reps
        ELSE IF RGt(data[i + 1].velocity, threshold) /\ ~st.inRep
             THEN DetectLoop_endAtClose(data, threshold, minFrames, i + 1,
                             [inRep |-> TRUE, startIndex |-> i, reps |-> st.reps])
        ELSE IF RLe(data[i + 1].velocity, threshold) /\ st.inRep
             THEN DetectLoop_endAtClose(data, threshold, minFrames, i + 1,
                             [inRep |-> FALSE, startIndex |-> st.startIndex,
                              reps |-> IF i - st.startIndex >= minFrames
                                       THEN Append(st.reps, [startIndex |-> st.startIndex,
                                                             endIndex |-> i])
                                       ELSE st.reps])
        ELSE DetectLoop_endAtClose(data, threshold, minFrames, i + 1, st))

\* the for loop of detectRepetitions from index i on, then the tail handling
RECURSIVE DetectLoop(_, _, _, _, _)
DetectLoop(data, threshold, minFrames, i, stArg) ==
    Let1(stArg, LAMBDA st :       \* st = [inRep, startIndex, reps]
        IF i >= Len(data)
        THEN IF st.inRep /\ Len(data) - 1 - st.startIndex >= minFrames
             THEN Append(st.reps, [startIndex |-> st.startIndex, endIndex |-> Len(data) - 1])
             ELSE st.reps
        ELSE IF RGt(data[i + 1].velocity, threshold) /\ ~st.inRep
             THEN DetectLoop(data, threshold, minFrames, i + 1,
                             [inRep |-> TRUE, startIndex |-> i, reps |-> st.reps])
        ELSE IF RLe(data[i + 1].velocity, threshold) /\ st.inRep
             THEN DetectLoop(data, threshold, minFrames, i + 1,
                             [inRep |-> FALSE, startIndex |-> st.startIndex,
                              reps |-> IF i - st.startIndex >= minFrames
                                       THEN Append(st.reps, [startIndex |-> st.startIndex,
                                                             endIndex |-> i - 1])
                                       ELSE st.reps])
        ELSE DetectLoop(data, threshold, minFrames, i + 1, st))

detectRepetitions(data, threshold, durationMs) ==
    DetectLoop(data, threshold, minFramesOf(durationMs), 0,
               [inRep |-> FALSE, startIndex |-> 0, reps |-> <<>>])

\* array.slice(from, to) for integer arguments
Slice(data, from, to) ==
    LET n == Len(data)
        Index(k) == IF k < 0 THEN Max(n + k, 0) ELSE Min(k, n)
    IN  SubSeq(data, Index(from) + 1, Index(to))

\* Math.max(...values) from index k on; best is -Infinity at the start
RECURSIVE MathMax(_, _, _)
MathMax(values, k, bestArg) ==
    Let1(bestArg, LAMBDA best :
        IF k > Len(values) THEN best
        ELSE IF IsNaN(values[k]) THEN NaN
        ELSE MathMax(values, k + 1, IF RGt(values[k], best) THEN values[k] ELSE best))

\* variant of PositiveVel: the filter keeps p.velocity >= 0
RECURSIVE PositiveVel_nonNegative(_, _, _)
PositiveVel_nonNegative(repData, k, accArg) ==
    Let1(accArg, LAMBDA acc :
        IF k > Len(repData) THEN acc
        ELSE IF RGe(repData[k].velocity, R(0))
             THEN PositiveVel_nonNegative(repData, k + 1,
                              [sum |-> RAdd(acc.sum, repData[k].velocity),
                               count |-> acc.count + 1])
        ELSE PositiveVel_nonNegative(repData, k + 1, acc))

\* filter(p => p.velocity > 0) and the reduce over it, from index k on: [sum, count]
RECURSIVE PositiveVel(_, _, _)
PositiveVel(repData, k, accArg) ==
    Let1(accArg, LAMBDA acc :
        IF k > Len(repData) THEN acc
        ELSE IF RGt(repData[k].velocity, R(0))
             THEN PositiveVel(repData, k + 1,
                              [sum |-> RAdd(acc.sum, repData[k].velocity),
                               count |-> acc.count + 1])
        ELSE PositiveVel(repData, k + 1, acc))

\* the metrics of one repetition (the callback of reps.map)
RepMetricsOf(data, rep, index) ==
    Let1(Slice(data, rep.startIndex, rep.endIndex + 1), LAMBDA repData :
        IF Len(repData) = 0
        THEN [repNumber |-> index + 1, startTime |-> 0, endTime |-> 0,
              meanVelocity |-> R(0), peakVelocity |-> R(0), peakForce |-> R(0)]
        ELSE Let1(PositiveVel(repData, 1, [sum |-> R(0), count |-> 0]),
                  LAMBDA positiveVelData :
            [repNumber |-> index + 1,
             startTime |-> repData[1].time,
             endTime |-> repData[Len(repData)].time,
             meanVelocity |-> IF positiveVelData.count > 0
                              THEN RDiv(positiveVelData.sum, R(positiveVelData.count))
                              ELSE R(0),
             peakVelocity |-> MathMax([k \in 1..Len(repData) |-> repData[k].velocity],
                                      1, [n |-> -1, d |-> 0]),
             peakForce |-> MathMax([k \in 1..Len(repData) |->
                                        IF "smoothedForce" \in DOMAIN repData[k]
                                        THEN repData[k].smoothedForce
                                        ELSE repData[k].force],
                                   1, [n |-> -1, d |-> 0])]))

calculateRepMetrics(data, repList) ==
    [k \in 1..Len(repList) |-> RepMetricsOf(data, repList[k], k - 1)]

-----------------------------------------------------------------------------
(* The two-threshold detectRepetitions (src/unnamed/part_011) *)

\* the velocity under which an open repetition finishes (d.velocity < 0.05)
REP_END_VELOCITY == Norm(5, 100)

\* variant of TwoThresholdLoop: a velocity equal to REP_END_VELOCITY finishes the repetition
RECURSIVE TwoThresholdLoop_closeAtOff(_, _, _, _)
TwoThresholdLoop_closeAtOff(data, threshold, i, stArg) ==
    Let1(stArg, LAMBDA st :       \* st = [inRep, repStartIndex, reps]
        IF i >= Len(data)
        THEN IF st.inRep /\ Len(data) - st.repStartIndex > 5
             THEN Append(st.reps, [startIndex |-> st.repStartIndex, endIndex |-> Len(data) - 1])
             ELSE st.reps
        ELSE IF RGt(data[i + 1].velocity, threshold)
             THEN TwoThresholdLoop_closeAtOff(data, threshold, i + 1,
                                   IF ~st.inRep
                                   THEN [inRep |-> TRUE, repStartIndex |-> i, reps |-> st.reps]
                                   ELSE st)
        ELSE IF st.inRep /\ RLe(data[i + 1].velocity, REP_END_VELOCITY)
             THEN TwoThresholdLoop_closeAtOff(data, threshold, i + 1,
                             [inRep |-> FALSE, repStartIndex |-> st.repStartIndex,
                              reps |-> IF i - st.repStartIndex > 5
                                       THEN Append(st.reps, [startIndex |-> st.repStartIndex,
                                                             endIndex |-> i - 1])
                                       ELSE st.reps])
        ELSE TwoThresholdLoop_closeAtOff(data, threshold, i + 1, st))

\* the forEach of detectRepetitions from index i on, then the tail handling
RECURSIVE TwoThresholdLoop(_, _, _, _)
TwoThresholdLoop(data, threshold, i, stArg) ==
    Let1(stArg, LAMBDA st :       \* st = [inRep, repStartIndex, reps]
        IF i >= Len(data)
        THEN IF st.inRep /\ Len(data) - st.repStartIndex > 5
             THEN Append(st.reps, [startIndex |-> st.repStartIndex, endIndex |-> Len(data) - 1])
             ELSE st.reps
        ELSE IF RGt(data[i + 1].velocity, threshold)
             THEN TwoThresholdLoop(data, threshold, i + 1,
                                   IF ~st.inRep
                                   THEN [inRep |-> TRUE, repStartIndex |-> i, reps |-> st.reps]
                                   ELSE st)
        ELSE IF st.inRep /\ RLt(data[i + 1].velocity, REP_END_VELOCITY)
             THEN TwoThresholdLoop(data, threshold, i + 1,
                             [inRep |-> FALSE, repStartIndex |-> st.repStartIndex,
                              reps |-> IF i - st.repStartIndex > 5
                                       THEN Append(st.reps, [startIndex |-> st.repStartIndex,
                                                             endIndex |-> i - 1])
                                       ELSE st.reps])
        ELSE TwoThresholdLoop(data, threshold, i + 1, st))

detectRepetitionsTwoThreshold(data, threshold) ==
    IF Len(data) < 2 THEN <<>>
    ELSE TwoThresholdLoop(data, threshold, 0,
                          [inRep |-> FALSE, repStartIndex |-> 0, reps |-> <<>>])

\* processTrackingData of src/unnamed/part_011, step 3: the interval, in
\* seconds, that stands in for a zero time difference (dt || 0.033)
NOMINAL_FRAME_INTERVAL == Norm(33, 1000)

\* processTrackingData of src/unnamed/part_011, step 1: heights above the
\* lowest point of the trajectory (the largest pixel Y), in metres
metersTrace(points, ppm) ==
    Let1(MathMax([k \in 1..Len(points) |-> points[k].y], 1, [n |-> -1, d |-> 0]),
         LAMBDA maxY :
            [i \in 1..Len(points) |->
                [time |-> points[i].time,
                 pos |-> RDiv(RSub(maxY, points[i].y), R(ppm))]])

-----------------------------------------------------------------------------
(* TrackingState.tsx: trackFrame                                            *)
(*                                                                         *)
(* Pixel coordinates, velocities and radii are fixed-point numbers in      *)
(* units of 1 / PxScale pixel, and a product with a decimal factor is      *)
(* truncated to that unit; match weights are in thousandths; colour        *)
(* channels in tenths of a level.  The pixels of the frame are the input   *)
(* of trackFrame: the model takes what the two scans compute from them     *)
(* (the weighted centroid and best colour weight of the local window, the  *)
(* best grid point of the full-frame scan, the sampled colours, a throwing *)
(* getImageData) as the nondeterministic input img.                        *)

PxScale == 10 * 10

Null == [none |-> TRUE]

\* mean colours of the pixels sampled at lines 416-443 and at lines 523-548
CapturedColor == [r |-> 2000, g |-> 2000, b |-> 2000]
SampledColor == [r |-> 1000, g |-> 600, b |-> 200]

\* n / d truncated toward zero
Trunc(n, d) == IF n >= 0 THEN n \div d ELSE -((-n) \div d)

\* Math.floor of a fixed-point coordinate, in whole pixels
FloorPx(c) == c \div PxScale

\* largest s in lo..hi with s * s <= q
RECURSIVE SqrtSearch(_, _, _)
SqrtSearch(q, loArg, hiArg) ==
    Let2(loArg, hiArg, LAMBDA lo, hi :
        IF lo >= hi THEN lo
        ELSE Let1((lo + hi + 1) \div 2, LAMBDA mid :
                IF mid * mid <= q THEN SqrtSearch(q, mid, hi)
                ELSE SqrtSearch(q, lo, mid - 1)))

\* Math.sqrt, rounded down to the fixed-point unit
Sqrt(qArg) == Let1(qArg, LAMBDA q : SqrtSearch(q, 0, 46340))

Clamp(lo, hi, v) == Max(lo, Min(hi, v))

\* variant of consecutiveLossCountLead: the lead does not grow with the loss count
consecutiveLossCountLead_fixed(lossCount) == 8 + Min(20, 0 * lossCount)

\* line 390: lead, in tenths
consecutiveLossCountLead(lossCount) == 8 + Min(20, lossCount * 4)

\* variant of TrackEnv: the window keeps its full width and height at the
\* right and bottom borders of the frame
TrackEnv_fullExtent(refs, lastPos, isFirstFrame, circleRadius, canvas) ==
    LET measured == refs.prevPosition # Null /\ ~isFirstFrame
    IN
    Let2(IF measured
         THEN [vx |-> lastPos.x - refs.prevPosition.x, vy |-> lastPos.y - refs.prevPosition.y]
         ELSE refs.velocity,
         consecutiveLossCountLead(refs.consecutiveLossCount),
         LAMBDA velocity, lead10 :
    Let2(IF measured
         THEN [vx |-> Trunc(velocity.vx * 7 + refs.velocity.vx * 3, 10),
               vy |-> Trunc(velocity.vy * 7 + refs.velocity.vy * 3, 10)]
         ELSE refs.velocity,
         Sqrt(velocity.vx * velocity.vx + velocity.vy * velocity.vy),
         LAMBDA velocityRef1, speed :
    Let2([x |-> lastPos.x + Trunc(velocityRef1.vx * lead10, 10),
          y |-> lastPos.y + Trunc(velocityRef1.vy * lead10, 10)],
         Trunc(circleRadius * 2
                 * Max(1000 + Min(2000, Trunc(speed * 1000, circleRadius)),
                       Min(6000, 1000 + refs.consecutiveLossCount * 900)), 1000),
         LAMBDA predictedPos, searchRadius :
    Let2(Max(0, FloorPx(predictedPos.x - searchRadius)),
         Max(0, FloorPx(predictedPos.y - searchRadius)),
         LAMBDA searchX, searchY :
        [velocity |-> velocity, velocityRef |-> velocityRef1, speed |-> speed,
         isMovingFast |-> speed * 10 > circleRadius * 3,
         lead10 |-> lead10, predictedPos |-> predictedPos,
         searchRadius |-> searchRadius,
         searchX |-> searchX, searchY |-> searchY,
         searchW |-> FloorPx(searchRadius * 2),
         searchH |-> FloorPx(searchRadius * 2)]))))

\* lines 370-409: velocity estimate, prediction and search window;
\* refs = [referenceColor, consecutiveLossCount, velocity, prevPosition]
TrackEnv(refs, lastPos, isFirstFrame, circleRadius, canvas) ==
    LET measured == refs.prevPosition # Null /\ ~isFirstFrame
    IN
    Let2(IF measured
         THEN [vx |-> lastPos.x - refs.prevPosition.x, vy |-> lastPos.y - refs.prevPosition.y]
         ELSE refs.velocity,
         consecutiveLossCountLead(refs.consecutiveLossCount),
         LAMBDA velocity, lead10 :
    Let2(IF measured
         THEN [vx |-> Trunc(velocity.vx * 7 + refs.velocity.vx * 3, 10),
               vy |-> Trunc(velocity.vy * 7 + refs.velocity.vy * 3, 10)]
         ELSE refs.velocity,
         Sqrt(velocity.vx * velocity.vx + velocity.vy * velocity.vy),
         LAMBDA velocityRef1, speed :
    Let2([x |-> lastPos.x + Trunc(velocityRef1.vx * lead10, 10),
          y |-> lastPos.y + Trunc(velocityRef1.vy * lead10, 10)],
         Trunc(circleRadius * 2
                 * Max(1000 + Min(2000, Trunc(speed * 1000, circleRadius)),
                       Min(6000, 1000 + refs.consecutiveLossCount * 900)), 1000),
         LAMBDA predictedPos, searchRadius :
    Let2(Max(0, FloorPx(predictedPos.x - searchRadius)),
         Max(0, FloorPx(predictedPos.y - searchRadius)),
         LAMBDA searchX, searchY :
        [velocity |-> velocity, velocityRef |-> velocityRef1, speed |-> speed,
         isMovingFast |-> speed * 10 > circleRadius * 3,
         lead10 |-> lead10, predictedPos |-> predictedPos,
         searchRadius |-> searchRadius,
         searchX |-> searchX, searchY |-> searchY,
         searchW |-> Min(FloorPx(searchRadius * 2), canvas.width - searchX),
         searchH |-> Min(FloorPx(searchRadius * 2), canvas.height - searchY)]))))

\* lines 506-507: the weighted centroid of the matching pixels of the window,
\* img.at naming where in the window the frame shows them
Centroid(e, lastPos, at) ==
    LET lowX == e.searchX * PxScale
        highX == (e.searchX + e.searchW - 1) * PxScale
        lowY == e.searchY * PxScale
        highY == (e.searchY + e.searchH - 1) * PxScale
    IN  IF at = "stay"
        THEN [x |-> Clamp(lowX, highX, lastPos.x), y |-> Clamp(lowY, highY, lastPos.y)]
        ELSE [x |-> highX, y |-> highY]

\* lines 568-592: the best grid point of the full-frame scan, img.best.at
\* naming where the frame shows it
GridPoint(at, circleRadius, canvas) ==
    LET step == Max(3, FloorPx(Trunc(circleRadius * 2, 10)))
    IN  [x |-> ((canvas.width - 1) \div step) * step * PxScale,
         y |-> ((canvas.height - 1) \div step) * step * PxScale]

\* a result of trackFrame with the path the call took through the code:
\* "emptyWindow" (return of line 411), "windowThrew" (getImageData of line 414
\* throws), "accepted" (return of line 553), "sampleThrew" (local match
\* accepted, getImageData of line 530 throws), "rejectedNoScan" (local match
\* rejected, block of lines 565-601 not entered), "scanThrew" (block entered,
\* getImageData of line 565 throws), "scanNoMatch" (block left without a
\* match), "reacquired" (return of line 598)
Tag(r, path) ==
    [x |-> r.x, y |-> r.y, confidence |-> r.confidence, kind |-> r.kind, refs |-> r.refs,
     path |-> path]

\* variant of Fallback: the position freezes while lost
Fallback_freeze(refs, e, lastPos, canvas) ==
    [x |-> lastPos.x, y |-> lastPos.y,
     confidence |-> 0, kind |-> "fallback",
     refs |-> [refs EXCEPT !.prevPosition = lastPos,
                           !.velocity = [vx |-> Trunc(refs.velocity.vx * 9, 10),
                                         vy |-> Trunc(refs.velocity.vy * 9, 10)]]]

\* variant of Fallback: the prediction is returned as it is, not held in the frame
Fallback_unclamped(refs, e, lastPos, canvas) ==
    [x |-> e.predictedPos.x,
     y |-> e.predictedPos.y,
     confidence |-> 0, kind |-> "fallback",
     refs |-> [refs EXCEPT !.prevPosition = lastPos,
                           !.velocity = [vx |-> Trunc(refs.velocity.vx * 9, 10),
                                         vy |-> Trunc(refs.velocity.vy * 9, 10)]]]

\* lines 608-614: no match accepted, advance by the prediction
Fallback(refs, e, lastPos, canvas) ==
    [x |-> Clamp(0, canvas.width * PxScale, e.predictedPos.x),
     y |-> Clamp(0, canvas.height * PxScale, e.predictedPos.y),
     confidence |-> 0, kind |-> "fallback",
     refs |-> [refs EXCEPT !.prevPosition = lastPos,
                           !.velocity = [vx |-> Trunc(refs.velocity.vx * 9, 10),
                                         vy |-> Trunc(refs.velocity.vy * 9, 10)]]]

\* variant of Accepted: the step to the centroid is not clamped to maxMove
Accepted_unclamped(refs, e, lastPos, img, circleRadius, canvas) ==
    LET new == Centroid(e, lastPos, img.at)
        smoothing == IF e.isMovingFast THEN 850 ELSE 600 + Trunc(3 * img.bestMatchWeight, 10)
    IN  [x |-> lastPos.x + Trunc((new.x - lastPos.x) * smoothing, 1000),
         y |-> lastPos.y + Trunc((new.y - lastPos.y) * smoothing, 1000),
         confidence |-> img.bestMatchWeight, kind |-> "accepted",
         refs |-> [refs EXCEPT !.consecutiveLossCount = 0, !.prevPosition = lastPos],
         path |-> "accepted"]

\* variant of Accepted: an accepted match leaves the loss count alone
Accepted_keepsLossCount(refs, e, lastPos, img, circleRadius, canvas) ==
    LET maxMove == circleRadius * 3 + e.speed
        new == Centroid(e, lastPos, img.at)
        dx == Clamp(-maxMove, maxMove, new.x - lastPos.x)
        dy == Clamp(-maxMove, maxMove, new.y - lastPos.y)
        smoothing == IF e.isMovingFast THEN 850 ELSE 600 + Trunc(3 * img.bestMatchWeight, 10)
        reset == refs
        adapted ==
            IF img.bestMatchWeight > 550 /\ reset.referenceColor # Null
            THEN [reset EXCEPT !.referenceColor =
                    [r |-> Trunc(reset.referenceColor.r * 9 + SampledColor.r, 10),
                     g |-> Trunc(reset.referenceColor.g * 9 + SampledColor.g, 10),
                     b |-> Trunc(reset.referenceColor.b * 9 + SampledColor.b, 10)]]
            ELSE reset
    IN  IF img.bestMatchWeight > 550 /\ img.throws = "sample"
        THEN Tag(Fallback(reset, e, lastPos, canvas), "sampleThrew")
        ELSE [x |-> lastPos.x + Trunc(dx * smoothing, 1000),
              y |-> lastPos.y + Trunc(dy * smoothing, 1000),
              confidence |-> img.bestMatchWeight, kind |-> "accepted",
              refs |-> [adapted EXCEPT !.prevPosition = lastPos],
              path |-> "accepted"]

\* variant of Accepted: every accepted match adapts the reference colour
Accepted_adaptsAlways(refs, e, lastPos, img, circleRadius, canvas) ==
    LET maxMove == circleRadius * 3 + e.speed
        new == Centroid(e, lastPos, img.at)
        dx == Clamp(-maxMove, maxMove, new.x - lastPos.x)
        dy == Clamp(-maxMove, maxMove, new.y - lastPos.y)
        smoothing == IF e.isMovingFast THEN 850 ELSE 600 + Trunc(3 * img.bestMatchWeight, 10)
        reset == [refs EXCEPT !.consecutiveLossCount = 0]
        adapted ==
            IF reset.referenceColor # Null
            THEN [reset EXCEPT !.referenceColor =
                    [r |-> Trunc(reset.referenceColor.r * 9 + SampledColor.r, 10),
                     g |-> Trunc(reset.referenceColor.g * 9 + SampledColor.g, 10),
                     b |-> Trunc(reset.referenceColor.b * 9 + SampledColor.b, 10)]]
            ELSE reset
    IN  IF img.bestMatchWeight > 550 /\ img.throws = "sample"
        THEN Tag(Fallback(reset, e, lastPos, canvas), "sampleThrew")
        ELSE [x |-> lastPos.x + Trunc(dx * smoothing, 1000),
              y |-> lastPos.y + Trunc(dy * smoothing, 1000),
              confidence |-> img.bestMatchWeight, kind |-> "accepted",
              refs |-> [adapted EXCEPT !.prevPosition = lastPos],
              path |-> "accepted"]

\* lines 505-557: the local match is accepted
Accepted(refs, e, lastPos, img, circleRadius, canvas) ==
    LET maxMove == circleRadius * 3 + e.speed
        new == Centroid(e, lastPos, img.at)
        dx == Clamp(-maxMove, maxMove, new.x - lastPos.x)
        dy == Clamp(-maxMove, maxMove, new.y - lastPos.y)
        smoothing == IF e.isMovingFast THEN 850 ELSE 600 + Trunc(3 * img.bestMatchWeight, 10)
        reset == [refs EXCEPT !.consecutiveLossCount = 0]
        adapted ==
            IF img.bestMatchWeight > 550 /\ reset.referenceColor # Null
            THEN [reset EXCEPT !.referenceColor =
                    [r |-> Trunc(reset.referenceColor.r * 9 + SampledColor.r, 10),
                     g |-> Trunc(reset.referenceColor.g * 9 + SampledColor.g, 10),
                     b |-> Trunc(reset.referenceColor.b * 9 + SampledColor.b, 10)]]
            ELSE reset
    IN  IF img.bestMatchWeight > 550 /\ img.throws = "sample"
        THEN Tag(Fallback(reset, e, lastPos, canvas), "sampleThrew")
        ELSE [x |-> lastPos.x + Trunc(dx * smoothing, 1000),
              y |-> lastPos.y + Trunc(dy * smoothing, 1000),
              confidence |-> img.bestMatchWeight, kind |-> "accepted",
              refs |-> [adapted EXCEPT !.prevPosition = lastPos],
              path |-> "accepted"]

\* variant of Rejected: the loss count grows without a cap
Rejected_uncapped(refs, e, lastPos, img, circleRadius, canvas) ==
    LET lost == [refs EXCEPT !.consecutiveLossCount = refs.consecutiveLossCount + 1]
        reacquireThreshold == IF e.isMovingFast THEN 250 ELSE 350
    IN  IF lost.consecutiveLossCount >= 2
        THEN IF img.throws = "full"
             THEN Tag(Fallback(lost, e, lastPos, canvas), "scanThrew")
             ELSE IF lost.referenceColor # Null /\ img.best.w > reacquireThreshold
             THEN [x |-> GridPoint(img.best.at, circleRadius, canvas).x,
                   y |-> GridPoint(img.best.at, circleRadius, canvas).y,
                   confidence |-> img.best.w, kind |-> "reacquired",
                   refs |-> [lost EXCEPT !.consecutiveLossCount = 0,
                                         !.prevPosition = lastPos],
                   path |-> "reacquired"]
             ELSE Tag(Fallback(lost, e, lastPos, canvas), "scanNoMatch")
        ELSE Tag(Fallback(lost, e, lastPos, canvas), "rejectedNoScan")

\* variant of Rejected: the full-frame scan starts at the first lost frame
Rejected_scanAtFirstLoss(refs, e, lastPos, img, circleRadius, canvas) ==
    LET lost == [refs EXCEPT !.consecutiveLossCount = Min(5, refs.consecutiveLossCount + 1)]
        reacquireThreshold == IF e.isMovingFast THEN 250 ELSE 350
    IN  IF lost.consecutiveLossCount >= 1
        THEN IF img.throws = "full"
             THEN Tag(Fallback(lost, e, lastPos, canvas), "scanThrew")
             ELSE IF lost.referenceColor # Null /\ img.best.w > reacquireThreshold
             THEN [x |-> GridPoint(img.best.at, circleRadius, canvas).x,
                   y |-> GridPoint(img.best.at, circleRadius, canvas).y,
                   confidence |-> img.best.w, kind |-> "reacquired",
                   refs |-> [lost EXCEPT !.consecutiveLossCount = 0,
                                         !.prevPosition = lastPos],
                   path |-> "reacquired"]
             ELSE Tag(Fallback(lost, e, lastPos, canvas), "scanNoMatch")
        ELSE Tag(Fallback(lost, e, lastPos, canvas), "rejectedNoScan")

\* lines 558-602: the local match is rejected
Rejected(refs, e, lastPos, img, circleRadius, canvas) ==
    LET lost == [refs EXCEPT !.consecutiveLossCount = Min(5, refs.consecutiveLossCount + 1)]
        reacquireThreshold == IF e.isMovingFast THEN 250 ELSE 350
    IN  IF lost.consecutiveLossCount >= 2
        THEN IF img.throws = "full"
             THEN Tag(Fallback(lost, e, lastPos, canvas), "scanThrew")
             ELSE IF lost.referenceColor # Null /\ img.best.w > reacquireThreshold
             THEN [x |-> GridPoint(img.best.at, circleRadius, canvas).x,
                   y |-> GridPoint(img.best.at, circleRadius, canvas).y,
                   confidence |-> img.best.w, kind |-> "reacquired",
                   refs |-> [lost EXCEPT !.consecutiveLossCount = 0,
                                         !.prevPosition = lastPos],
                   path |-> "reacquired"]
             ELSE Tag(Fallback(lost, e, lastPos, canvas), "scanNoMatch")
        ELSE Tag(Fallback(lost, e, lastPos, canvas), "rejectedNoScan")

\* variant of trackFrame: an empty search window takes the fallback path
trackFrame_emptyWindowDecays(refs, lastPos, isFirstFrame, img, circleRadius, canvas) ==
    Let1(TrackEnv(refs, lastPos, isFirstFrame, circleRadius, canvas), LAMBDA e :
    Let1([refs EXCEPT !.velocity = e.velocityRef], LAMBDA refs1 :
        IF e.searchW <= 0 \/ e.searchH <= 0
        THEN Tag(Fallback(refs1, e, lastPos, canvas), "emptyWindow")
        ELSE IF img.throws = "window"
        THEN Tag(Fallback(refs1, e, lastPos, canvas), "windowThrew")
        ELSE
        Let1(IF isFirstFrame \/ refs1.referenceColor = Null
             THEN [refs1 EXCEPT !.referenceColor = CapturedColor, !.prevPosition = lastPos]
             ELSE refs1, LAMBDA refs2 :
            IF /\ img.totalWeight > 0
               /\ img.bestMatchWeight > (IF e.isMovingFast THEN 250 ELSE 400)
            THEN Accepted(refs2, e, lastPos, img, circleRadius, canvas)
            ELSE Rejected(refs2, e, lastPos, img, circleRadius, canvas))))

\* lines 357-615; result [x, y, confidence, kind, refs, path], refs the refs after the call.
\* The canvas has a 2d context (line 365), and the reference colour is set by
\* line 447: the sample of lines 418-435 always holds the centre of the window.
trackFrame(refs, lastPos, isFirstFrame, img, circleRadius, canvas) ==
    Let1(TrackEnv(refs, lastPos, isFirstFrame, circleRadius, canvas), LAMBDA e :
    Let1([refs EXCEPT !.velocity = e.velocityRef], LAMBDA refs1 :
        IF e.searchW <= 0 \/ e.searchH <= 0
        THEN [x |-> lastPos.x, y |-> lastPos.y, confidence |-> 0, kind |-> "emptyWindow",
              refs |-> refs1, path |-> "emptyWindow"]
        ELSE IF img.throws = "window"
        THEN Tag(Fallback(refs1, e, lastPos, canvas), "windowThrew")
        ELSE
        Let1(IF isFirstFrame \/ refs1.referenceColor = Null
             THEN [refs1 EXCEPT !.referenceColor = CapturedColor, !.prevPosition = lastPos]
             ELSE refs1, LAMBDA refs2 :
            IF /\ img.totalWeight > 0
               /\ img.bestMatchWeight > (IF e.isMovingFast THEN 250 ELSE 400)
            THEN Accepted(refs2, e, lastPos, img, circleRadius, canvas)
            ELSE Rejected(refs2, e, lastPos, img, circleRadius, canvas))))

-----------------------------------------------------------------------------
(* TrackingState.tsx: the component and its tracking effect                 *)

\* props and video of the modelled component
Canvas == [width |-> 40, height |-> 60]                       \* video.videoWidth x videoHeight
CircleCenter == [x |-> 20 * PxScale, y |-> 30 * PxScale]      \* circleCenter
CircleRadius == 2 * PxScale                                   \* circleRadius
StepTicks == TicksPerSecond \div FrameRate                    \* step = 1 / 30
\* the number of frames of the video of a scenario
VideoFrames(sc) ==
    IF sc = "occlusion" THEN MaxOccludedFrames
    ELSE IF sc = "velocityTrackerLost" THEN MaxLostFrames
    ELSE IF sc = "velocityTrackerReplay" THEN MaxReplayedPoints \div 2
    ELSE MaxTrackedFrames
\* video.duration in ticks: a video of VideoFrames(sc) frames, and 0 for the
\* durations startTracking rejects
Durations(sc) == {0, StepTicks * VideoFrames(sc) - StepTicks \div 2}

NoBest == [w |-> 0, at |-> "far"]

TrackingStateScenarios == {"rerun", "footage", "occlusion"}

\* what the scans of one frame can compute
Images ==
    \* the local window holds matching pixels: where, and the best colour weight
    {[throws |-> "none", totalWeight |-> 1, bestMatchWeight |-> m[2], at |-> m[1],
      best |-> NoBest] :
        m \in {<<"stay", 1000>>, <<"corner", 1000>>, <<"corner", 500>>, <<"corner", 350>>}}
    \cup \* it holds none; the full-frame scan finds a grid point or not
    {[throws |-> "none", totalWeight |-> 0, bestMatchWeight |-> 0, at |-> "stay",
      best |-> f] : f \in {NoBest, [w |-> 900, at |-> "far"]}}
    \cup \* getImageData throws: window (line 414), sample (line 530), full frame (line 565)
    {[throws |-> "window", totalWeight |-> 0, bestMatchWeight |-> 0,
      at |-> "stay", best |-> NoBest],
     [throws |-> "sample", totalWeight |-> 1, bestMatchWeight |-> 1000,
      at |-> "stay", best |-> NoBest],
     [throws |-> "full", totalWeight |-> 0, bestMatchWeight |-> 0,
      at |-> "stay", best |-> NoBest]}

\* the frames of the video of a scenario
Footage(sc) ==
    IF sc = "rerun"
    THEN {i \in Images : i.throws = "none" /\ i.best = NoBest /\ <<i.at, i.bestMatchWeight>>
                                    \in {<<"corner", 1000>>, <<"stay", 0>>}}
    ELSE IF sc = "occlusion"
    THEN {i \in Images : i.throws = "none" /\ i.best = NoBest /\ <<i.at, i.bestMatchWeight>>
                                    \in {<<"stay", 1000>>, <<"stay", 0>>}}
    ELSE Images

Sessions == 1..MaxSessions

NoSession ==
    [pc |-> "none", isCancelled |-> FALSE, t |-> 0, endTime |-> 0,
     lastPosition |-> CircleCenter, frameCount |-> 0,
     completed |-> 0, seekFailed |-> FALSE,
     \* the video element of the run: video.currentTime, and the seekTo
     \* promises that are not settled (listeners still attached)
     currentTime |-> 0, pendingSeeks |-> 0,
     \* the tracker refs as the latest trackFrame call of the run left them
     exitRefs |-> Null]

Refs == [referenceColor |-> referenceColorRef,
         consecutiveLossCount |-> consecutiveLossCountRef,
         velocity |-> velocityRef,
         prevPosition |-> prevPositionRef]

\* TrackingState is not mounted, or has just been mounted (lines 339-354)
TrackIdle ==
    /\ status = "initializing" /\ errorMessage = "null" /\ progress = 0
    /\ currentPosition = CircleCenter /\ trackingPointsRef = <<>>
    /\ referenceColorRef = Null /\ consecutiveLossCountRef = 0 /\ prevPositionRef = Null
    /\ sessions = [s \in Sessions |-> NoSession]
    /\ completeCalls = <<>> /\ lastCall = Null /\ prevCall = Null /\ trackedFrames = 0

\* the library has not been called
PhysIdle ==
    /\ physPc = "idle"
    /\ trackingPoints = <<>> /\ pixelsPerMeter = 1 /\ mass = 1
    /\ processedData = <<>> /\ velocityThreshold = R(0) /\ minRepDurationMs = 0
    /\ reps = <<>> /\ repMetrics = <<>>

\* BarbellTracker.tsx lines 21-28: the initial values of the workflow
WorkflowIdle ==
    /\ state = "upload" /\ videoFile = Null /\ calibration = Null
    /\ workflowEvent = "none"

\* BarbellVelocityTracker before a click (lines 362-391)
BvtIdle ==
    /\ trackerPosRef = Null /\ lostFramesRef = 0 /\ lastGoodSpeedRef = 0
    /\ trackingDataRef = <<>> /\ isTracking = FALSE /\ trackingStatus = "idle"
    /\ currentTime = 0 /\ lastFind = Null /\ prevFind = Null

trackOnlyVars == <<status, errorMessage, progress, currentPosition, trackingPointsRef,
                   referenceColorRef, consecutiveLossCountRef, prevPositionRef, sessions,
                   completeCalls, lastCall, prevCall, trackedFrames>>

\* lines 339-354: the component is mounted
InitTrackingState ==
    /\ scenario \in TrackingStateScenarios
    /\ TrackIdle /\ velocityRef = [vx |-> 0, vy |-> 0]
    /\ BvtIdle /\ PhysIdle /\ WorkflowIdle

\* variant of TrackingEffect: the cleanup of the previous run does not set its
\* isCancelled flag
TrackingEffect_noCancel(s) ==
    /\ scenario \in TrackingStateScenarios
    /\ sessions[s].pc = "none"
    /\ s > 1 => scenario = "rerun" /\ sessions[s - 1].pc # "none" /\ ~sessions[s - 1].isCancelled
    /\ sessions' = [o \in Sessions |->
                        IF o = s THEN [NoSession EXCEPT !.pc = "loading"]
                        ELSE sessions[o]]
    /\ trackingPointsRef' = <<>>
    /\ UNCHANGED <<scenario, status, errorMessage, progress, currentPosition, referenceColorRef,
                   consecutiveLossCountRef, velocityRef, prevPositionRef, completeCalls,
                   lastCall, prevCall, trackedFrames>>

\* lines 633-646, 738-746 and 748-753: the tracking effect runs, at mount and
\* whenever one of its dependencies has changed; React first runs the cleanup
\* of its previous run
TrackingEffect(s) ==
    /\ scenario \in TrackingStateScenarios
    /\ sessions[s].pc = "none"
    /\ s > 1 => scenario = "rerun" /\ sessions[s - 1].pc # "none" /\ ~sessions[s - 1].isCancelled
    /\ sessions' = [o \in Sessions |->
                        IF o = s THEN [NoSession EXCEPT !.pc = "loading"]
                        ELSE IF o = s - 1 THEN [sessions[o] EXCEPT !.isCancelled = TRUE]
                        ELSE sessions[o]]
    /\ trackingPointsRef' = <<>>
    /\ UNCHANGED <<scenario, status, errorMessage, progress, currentPosition, referenceColorRef,
                   consecutiveLossCountRef, velocityRef, prevPositionRef, completeCalls,
                   lastCall, prevCall, trackedFrames>>

\* lines 748-753: the component unmounts, React runs the cleanup of the effect
Cleanup(s) ==
    /\ scenario \in TrackingStateScenarios
    /\ sessions[s].pc # "none"
    /\ ~sessions[s].isCancelled
    /\ sessions' = [sessions EXCEPT ![s].isCancelled = TRUE]
    /\ UNCHANGED <<scenario, status, errorMessage, progress, currentPosition, trackingPointsRef,
                   referenceColorRef, consecutiveLossCountRef, velocityRef, prevPositionRef,
                   completeCalls, lastCall, prevCall, trackedFrames>>

\* line 719: the check at the head of a loop iteration
CancelledBeforeSeek(s) == sessions[s].isCancelled
\* variant of CancelledAfterSeek: run does not look at the flag after the seek
CancelledAfterSeek_ignored(s) == FALSE
\* line 722: the check after the awaited seek
CancelledAfterSeek(s) == sessions[s].isCancelled
\* variant of CancelledAtComplete: the test of handleComplete is the wrong way round
CancelledAtComplete_inverted(s) == ~sessions[s].isCancelled

\* line 649: the check of handleComplete
CancelledAtComplete(s) == sessions[s].isCancelled
\* line 728: the check of the catch block
CancelledAtCatch(s) == sessions[s].isCancelled

\* variant of NextSeekTime: the loop does not advance
NextSeekTime_stuck(t) == t
\* line 718: t += step
NextSeekTime(t) == t + StepTicks

\* variant of run_catch: the rejected seek is swallowed and the loop goes on
run_catch_retry(s) ==
    [pc |-> "seeking", status |-> "error", errorMessage |-> "load"]
\* lines 727-732: the catch block of run, entered after video.onerror has run
run_catch(s) ==
    IF CancelledAtCatch(s)
    THEN [pc |-> "returned", status |-> "error", errorMessage |-> "load"]
    ELSE [pc |-> "failed", status |-> "error", errorMessage |-> "seek"]

\* lines 693-736: video.onloadedmetadata = startTracking, up to the first await of run
LoadedMetadata(s) ==
    /\ scenario \in TrackingStateScenarios
    /\ sessions[s].pc = "loading"
    /\ \E duration \in Durations(scenario) :
        IF duration <= 0
        THEN /\ status' = "error"
             /\ errorMessage' = "duration"
             /\ sessions' = [sessions EXCEPT ![s].pc = "returned"]
             /\ UNCHANGED progress
        ELSE /\ status' = "tracking"
             /\ progress' = 0
             /\ errorMessage' = errorMessage
             /\ sessions' = [sessions EXCEPT
                    ![s].endTime = Max(0, duration),
                    ![s].t = 0,
                    ![s].currentTime = IF CancelledBeforeSeek(s) THEN @
                                       ELSE Min(Max(0, duration), 0),
                    ![s].pendingSeeks = IF CancelledBeforeSeek(s) THEN @ ELSE @ + 1,
                    ![s].pc = IF CancelledBeforeSeek(s) THEN "returned" ELSE "seeking"]
    /\ UNCHANGED <<scenario, currentPosition, trackingPointsRef, referenceColorRef,
                   consecutiveLossCountRef, velocityRef, prevPositionRef, completeCalls,
                   lastCall, prevCall, trackedFrames>>

\* lines 660-663, 727-732 and 740-743: an error event of the video runs
\* video.onerror and, if a seek is pending, onError: the seek rejects and run
\* continues in its catch block
VideoError(s) ==
    /\ scenario \in TrackingStateScenarios
    /\ sessions[s].pc \in {"loading", "seeking"}
    /\ IF sessions[s].pc = "seeking"
       THEN \E caught \in {run_catch(s)} :
            /\ status' = caught.status
            /\ errorMessage' = caught.errorMessage
            /\ sessions' = [sessions EXCEPT
                    ![s].pc = caught.pc,
                    ![s].pendingSeeks = @ - 1,
                    ![s].seekFailed = ~sessions[s].isCancelled]
       ELSE /\ status' = "error"
            /\ errorMessage' = "load"
            /\ sessions' = [sessions EXCEPT ![s].pc = "dead"]
    /\ UNCHANGED <<scenario, progress, currentPosition, trackingPointsRef, referenceColorRef,
                   consecutiveLossCountRef, velocityRef, prevPositionRef, completeCalls,
                   lastCall, prevCall, trackedFrames>>

\* lines 656-659, 675-691 and 718-726: the seeked event resolves the pending
\* seek and run continues: the check of line 722, sampleFrameAt with its call
\* of trackFrame, the loop increment and test, then the next seek or
\* handleComplete
Seeked(s) ==
    /\ scenario \in TrackingStateScenarios
    /\ sessions[s].pc = "seeking"
    /\ IF CancelledAfterSeek(s)
       THEN /\ sessions' = [sessions EXCEPT ![s].pc = "returned", ![s].pendingSeeks = @ - 1]
            /\ UNCHANGED <<status, progress, currentPosition, trackingPointsRef,
                           referenceColorRef, consecutiveLossCountRef, velocityRef,
                           prevPositionRef, completeCalls, lastCall, prevCall, trackedFrames>>
       ELSE
       /\ trackedFrames < VideoFrames(scenario)
       /\ \E img \in Footage(scenario) :
          LET me == sessions[s]
              clampedT == Min(me.endTime, me.t)
              isFirstFrame == me.frameCount = 0
              nextT == NextSeekTime(me.t)
              more == nextT <= me.endTime
              seeksAgain == more /\ ~CancelledBeforeSeek(s)
              completes == ~more /\ ~CancelledAtComplete(s)
          IN  \E result \in {trackFrame(Refs, me.lastPosition, isFirstFrame, img,
                                        CircleRadius, Canvas)},
                 env \in {TrackEnv(Refs, me.lastPosition, isFirstFrame, CircleRadius, Canvas)} :
              /\ progress' = (IF me.endTime > 0 THEN (clampedT * 100) \div me.endTime ELSE 0)
              /\ status' = IF completes THEN "complete" ELSE "tracking"
              /\ referenceColorRef' = result.refs.referenceColor
              /\ consecutiveLossCountRef' = result.refs.consecutiveLossCount
              /\ velocityRef' = result.refs.velocity
              /\ prevPositionRef' = result.refs.prevPosition
              /\ currentPosition' = [x |-> result.x, y |-> result.y]
              /\ trackingPointsRef' =
                    Append(trackingPointsRef, [x |-> result.x, y |-> result.y, time |-> clampedT])
              /\ completeCalls' =
                    IF completes
                    THEN Append(completeCalls, [session |-> s, points |-> trackingPointsRef'])
                    ELSE completeCalls
              /\ sessions' = [sessions EXCEPT
                    ![s].lastPosition = [x |-> result.x, y |-> result.y],
                    ![s].frameCount = me.frameCount + 1,
                    ![s].t = nextT,
                    ![s].completed = me.completed + (IF completes THEN 1 ELSE 0),
                    ![s].exitRefs = result.refs,
                    ![s].currentTime = IF seeksAgain THEN Min(me.endTime, nextT) ELSE @,
                    ![s].pendingSeeks = IF seeksAgain THEN @ ELSE @ - 1,
                    ![s].pc = IF more
                              THEN (IF CancelledBeforeSeek(s) THEN "returned" ELSE "seeking")
                              ELSE (IF completes THEN "complete" ELSE "returned")]
              /\ prevCall' = IF lastCall = Null THEN Null
                             ELSE [session |-> lastCall.session, x |-> lastCall.x,
                                   y |-> lastCall.y, confidence |-> lastCall.confidence,
                                   path |-> lastCall.path, time |-> lastCall.time]
              /\ lastCall' = [session |-> s, isFirstFrame |-> isFirstFrame,
                              time |-> clampedT, videoTime |-> me.currentTime,
                              pendingSeeks |-> me.pendingSeeks - 1,
                              leftByPrevious |-> me.exitRefs,
                              lastPos |-> me.lastPosition, entry |-> Refs,
                              trajectory |-> Len(trackingPointsRef),
                              predictedPos |-> env.predictedPos, speed |-> env.speed,
                              isMovingFast |-> env.isMovingFast,
                              velocityRef |-> env.velocityRef,
                              searchRadius |-> env.searchRadius,
                              searchX |-> env.searchX, searchY |-> env.searchY,
                              searchW |-> env.searchW, searchH |-> env.searchH,
                              x |-> result.x, y |-> result.y,
                              confidence |-> result.confidence, kind |-> result.kind,
                              path |-> result.path]
              /\ trackedFrames' = trackedFrames + 1
    /\ UNCHANGED <<scenario, errorMessage>>

TrackingStateNext ==
    \E s \in Sessions :
        \/ TrackingEffect(s) \/ Cleanup(s) \/ LoadedMetadata(s) \/ Seeked(s) \/ VideoError(s)

-----------------------------------------------------------------------------
(* BarbellVelocityTracker.tsx: findTemplate and the frame callback.  The    *)
(* templates and the trajectory direction only enter the score of the      *)
(* candidates; the input img gives what the scan computes from them: where *)
(* the best candidate lies and its average difference.                     *)

TemplateSize == 60
VideoSize == [width |-> 200, height |-> 300]                  \* video.videoWidth x videoHeight
\* where the user clicks the sleeve
ClickCoords == {[x |-> 100 * PxScale, y |-> 150 * PxScale],
                [x |-> 190 * PxScale, y |-> 290 * PxScale]}
VelocityTrackerImages == [at : {"near", "far"}, avgDiff : {50, 150, 300}]
VelocityTrackerScenarios == {"velocityTracker", "velocityTrackerLost", "velocityTrackerReplay"}
\* the frames of the video of a scenario
VelocityTrackerFootage(sc) ==
    IF sc = "velocityTrackerLost"
    THEN {i \in VelocityTrackerImages : <<i.at, i.avgDiff>> \in {<<"far", 50>>, <<"near", 300>>}}
    ELSE IF sc = "velocityTrackerReplay"
    THEN {i \in VelocityTrackerImages : <<i.at, i.avgDiff>> \in {<<"near", 50>>}}
    ELSE VelocityTrackerImages

\* the points onFrame pushes at most in a scenario
MaxTrackingData(sc) ==
    IF sc = "velocityTrackerReplay" THEN MaxReplayedPoints ELSE VideoFrames(sc)

\* video.ended: the playback position is the end of the video
VideoEnded(sc, time) == time >= VideoFrames(sc) * StepTicks

\* lines 658-659 and 716-721: the offset of the best candidate in the window,
\* on the grid of step 2; 0 when the window holds no candidate
BestOffset(at, want, maxOffset) ==
    IF maxOffset < 0 THEN 0
    ELSE IF at = "far" THEN (maxOffset \div 2) * 2
    ELSE Clamp(0, (maxOffset \div 2) * 2, (want \div 2) * 2)

\* lines 603-784; result [x, y, isLost, kind, lostFrames, lastGoodSpeed, ...].
\* The template has been captured by handleClick and the processing canvas has
\* a 2d context (lines 612 and 617).
findTemplate(cx, cy, vx, vy, lostFrames, lastGoodSpeed, img, video) ==
    Let1(Sqrt(vx * vx + vy * vy), LAMBDA speed :
    Let2(Max(speed, Trunc(lastGoodSpeed * (IF lostFrames > 0 THEN 95 ELSE 75), 100)),
         speed < 10 * PxScale /\ lastGoodSpeed > 25 * PxScale,
         LAMBDA effectiveSpeed, reversal :
    Let2(Max(55 * PxScale,
             Min(180 * PxScale,
                 Trunc(effectiveSpeed * 29 * (IF reversal THEN 19 ELSE 10)
                                      * (IF lostFrames > 0 THEN 15 ELSE 10), 1000))),
         [x |-> cx + vx, y |-> cy + vy],
         LAMBDA searchRadius, pred :
    Let2([x |-> FloorPx(Max(0, pred.x - searchRadius)),
          y |-> FloorPx(Max(0, pred.y - searchRadius))],
         [x |-> FloorPx(Min(video.width * PxScale,
                            pred.x + searchRadius + TemplateSize * PxScale)),
          y |-> FloorPx(Min(video.height * PxScale,
                            pred.y + searchRadius + TemplateSize * PxScale))],
         LAMBDA start, end :
    Let2(end.x - start.x, end.y - start.y, LAMBDA searchWidth, searchHeight :
        IF searchWidth <= 0 \/ searchHeight <= 0
        THEN [x |-> cx, y |-> cy, isLost |-> FALSE, kind |-> "noWindow",
              lostFrames |-> lostFrames, lastGoodSpeed |-> lastGoodSpeed,
              pred |-> pred, maxStep |-> 0]
        ELSE
        LET scanned == searchWidth >= TemplateSize /\ searchHeight >= TemplateSize
            bestX == IF scanned
                     THEN BestOffset(img.at, FloorPx(pred.x) - TemplateSize \div 2 - start.x,
                                     searchWidth - TemplateSize)
                     ELSE 0
            bestY == IF scanned
                     THEN BestOffset(img.at, FloorPx(pred.y) - TemplateSize \div 2 - start.y,
                                     searchHeight - TemplateSize)
                     ELSE 0
            avgDiff == IF scanned THEN img.avgDiff ELSE 0
            lostThreshold == 95 * PxScale + Min(110 * PxScale, Trunc(effectiveSpeed * 9, 10))
                                + (IF reversal THEN 25 * PxScale ELSE 0)
        IN
        Let2([x |-> (start.x + bestX) * PxScale + (TemplateSize * PxScale) \div 2,
              y |-> (start.y + bestY) * PxScale + (TemplateSize * PxScale) \div 2],
             Max(40 * PxScale, Min(120 * PxScale, Trunc(searchRadius * 7, 10))),
             LAMBDA found, maxStep :
        Let2(found.x - pred.x, found.y - pred.y, LAMBDA dx, dy :
        Let1(Sqrt(dx * dx + dy * dy), LAMBDA dist :
            IF avgDiff * PxScale > lostThreshold
            THEN [x |-> pred.x, y |-> pred.y, isLost |-> TRUE, kind |-> "lost",
                  lostFrames |-> Min(10, lostFrames + 1), lastGoodSpeed |-> lastGoodSpeed,
                  pred |-> pred, maxStep |-> maxStep]
            ELSE [x |-> IF dist > maxStep THEN pred.x + Trunc(dx * maxStep, dist) ELSE found.x,
                  y |-> IF dist > maxStep THEN pred.y + Trunc(dy * maxStep, dist) ELSE found.y,
                  isLost |-> FALSE, kind |-> "found",
                  lostFrames |-> 0, lastGoodSpeed |-> speed,
                  pred |-> pred, maxStep |-> maxStep]))))))))

\* lines 362-391: the component at its step 'tracking', the video loaded
InitVelocityTracker ==
    /\ scenario \in VelocityTrackerScenarios
    /\ BvtIdle /\ velocityRef = [x |-> 0, y |-> 0]
    /\ TrackIdle /\ PhysIdle /\ WorkflowIdle

\* lines 560-572 and 583-601: the user clicks the sleeve
handleClick(coords) ==
    /\ scenario \in VelocityTrackerScenarios
    \* "velocityTrackerLost": the user clicks once, mid-frame, and does not pause;
    \* "velocityTrackerReplay": the user clicks once, mid-frame
    /\ scenario \in {"velocityTrackerLost", "velocityTrackerReplay"} =>
            trackerPosRef = Null /\ coords.x * 2 <= VideoSize.width * PxScale
    /\ trackerPosRef' = coords
    /\ velocityRef' = [x |-> 0, y |-> 0]
    /\ trackingStatus' = "ok"
    /\ UNCHANGED <<scenario, trackOnlyVars, lostFramesRef, lastGoodSpeedRef, trackingDataRef,
                   isTracking, currentTime, lastFind, prevFind>>

\* lines 883-889, and lines 862-871 of the effect that follows the change of
\* isTracking: video.pause(), or video.play(), which starts an ended video
\* again from its first frame
toggleTracking ==
    /\ scenario \in VelocityTrackerScenarios
    /\ scenario = "velocityTrackerLost" => ~isTracking
    /\ isTracking \/ trackerPosRef # Null
    /\ isTracking' = ~isTracking
    /\ currentTime' = IF ~isTracking /\ VideoEnded(scenario, currentTime) THEN 0
                      ELSE currentTime
    /\ UNCHANGED <<scenario, trackOnlyVars, velocityRef, trackerPosRef, lostFramesRef,
                   lastGoodSpeedRef, trackingDataRef, trackingStatus, lastFind, prevFind>>

\* lines 799-860: the callback of a presented video frame; the video has
\* VideoFrames(scenario) frames, one every StepTicks
onFrame ==
    /\ scenario \in VelocityTrackerScenarios
    /\ isTracking
    /\ trackerPosRef # Null
    /\ ~VideoEnded(scenario, currentTime)
    /\ Len(trackingDataRef) < MaxTrackingData(scenario)
    /\ \E img \in VelocityTrackerFootage(scenario) :
       \E result \in {findTemplate(trackerPosRef.x, trackerPosRef.y, velocityRef.x,
                                   velocityRef.y, lostFramesRef, lastGoodSpeedRef, img,
                                   VideoSize)} :
       LET rawVx == result.x - trackerPosRef.x
           rawVy == result.y - trackerPosRef.y
           speed == Sqrt(rawVx * rawVx + rawVy * rawVy)
           safeVx == IF speed > 60 * PxScale THEN Trunc(rawVx * 60 * PxScale, speed) ELSE rawVx
           safeVy == IF speed > 60 * PxScale THEN Trunc(rawVy * 60 * PxScale, speed) ELSE rawVy
           blend == IF result.isLost THEN 25 ELSE 70
           ended == VideoEnded(scenario, currentTime + StepTicks)
       IN  /\ velocityRef' = [x |-> Trunc(velocityRef.x * (100 - blend) + safeVx * blend, 100),
                              y |-> Trunc(velocityRef.y * (100 - blend) + safeVy * blend, 100)]
           /\ lostFramesRef' = result.lostFrames
           /\ lastGoodSpeedRef' = result.lastGoodSpeed
           /\ trackingStatus' = IF result.kind = "lost" THEN "lost"
                                ELSE IF result.kind = "found" THEN "ok" ELSE trackingStatus
           /\ trackerPosRef' = [x |-> result.x, y |-> result.y]
           /\ trackingDataRef' = Append(trackingDataRef,
                                        [time |-> currentTime, x |-> result.x, y |-> result.y])
           /\ currentTime' = currentTime + StepTicks
           /\ isTracking' = ~ended
           /\ prevFind' = IF lastFind = Null THEN Null
                          ELSE [x |-> lastFind.x, y |-> lastFind.y, isLost |-> lastFind.isLost]
           /\ lastFind' = [cx |-> trackerPosRef.x, cy |-> trackerPosRef.y,
                           vx |-> velocityRef.x, vy |-> velocityRef.y,
                           pred |-> result.pred, maxStep |-> result.maxStep,
                           isLost |-> result.isLost, kind |-> result.kind,
                           x |-> result.x, y |-> result.y]
    /\ UNCHANGED <<scenario, trackOnlyVars>>

VelocityTrackerNext ==
    \/ \E coords \in ClickCoords : handleClick(coords)
    \/ toggleTracking
    \/ onFrame

-----------------------------------------------------------------------------
(* Inputs of the pure functions *)

PixelYs == {0, 1, 2}
\* time differences of successive points, in ticks: a repeated timestamp, less
\* than half the position smoothing window, one frame
TickGaps == {0, 40, 100}
\* (pixelsPerMeter, mass) pairs, valid and contract-violating
Params == {<<1, 1>>, <<2, 3>>, <<0, 1>>, <<-1, 1>>, <<1, 0>>, <<1, -1>>}

\* trajectories of n points starting at time 0
RECURSIVE Trajectories(_)
Trajectories(n) ==
    IF n = 0 THEN {<<>>}
    ELSE IF n = 1 THEN {<<[x |-> 0, y |-> R(y), time |-> 0]>> : y \in PixelYs}
    ELSE {Append(tr, [x |-> 0, y |-> R(y), time |-> tr[Len(tr)].time + g]) :
             tr \in Trajectories(n - 1), y \in PixelYs, g \in TickGaps}

\* velocities below, at and above the threshold 3/100 m/s
FrameVelocities == {Norm(2, 100), Norm(3, 100), Norm(4, 100)}
Thresholds == {Norm(3, 100)}
\* minRepDurationMs: the default (6 frames), 3 frames, 1 frame
MinDurations == {DefaultMinRepDurationMs, 67, 33}

FrameOf(i, v) ==
    [time |-> i * 100, y |-> R(0), velocity |-> v, acceleration |-> R(0),
     force |-> R(0), smoothedForce |-> R(0)]

FrameSeqs(n) == {[i \in 1..n |-> FrameOf(i - 1, vs[i])] : vs \in [1..n -> FrameVelocities]}

InitPipeline ==
    /\ scenario = "physics" /\ TrackIdle /\ velocityRef = [vx |-> 0, vy |-> 0] /\ BvtIdle
    /\ WorkflowIdle
    /\ physPc = "input"
    /\ \E n \in 0..MaxPoints : trackingPoints \in Trajectories(n)
    /\ \E p \in Params : pixelsPerMeter = p[1] /\ mass = p[2]
    /\ processedData = <<>> /\ velocityThreshold = R(0) /\ minRepDurationMs = 0
    /\ reps = <<>> /\ repMetrics = <<>>

InitFrames ==
    /\ scenario = "physics" /\ TrackIdle /\ velocityRef = [vx |-> 0, vy |-> 0] /\ BvtIdle
    /\ WorkflowIdle
    /\ physPc = "frames"
    /\ trackingPoints = <<>> /\ pixelsPerMeter = 1 /\ mass = 1
    /\ \E n \in 0..MaxFrames : processedData \in FrameSeqs(n)
    /\ velocityThreshold = R(0) /\ minRepDurationMs = 0
    /\ reps = <<>> /\ repMetrics = <<>>

\* a bar rising 0.5 m in 1.0 s, sampled every frame: pixel Y falls from 500 to 0
LinearTrajectory ==
    [i \in 1..(FrameRate + 1) |->
        [x |-> 0, y |-> Norm(500 * (FrameRate - (i - 1)), FrameRate),
         time |-> (i - 1) * (TicksPerSecond \div FrameRate)]]

InitLinear ==
    /\ scenario = "physics" /\ TrackIdle /\ velocityRef = [vx |-> 0, vy |-> 0] /\ BvtIdle
    /\ WorkflowIdle
    /\ physPc = "input"
    /\ trackingPoints = LinearTrajectory
    /\ pixelsPerMeter = 1000 /\ mass = 100
    /\ processedData = <<>> /\ velocityThreshold = R(0) /\ minRepDurationMs = 0
    /\ reps = <<>> /\ repMetrics = <<>>

\* velocities of the frames handed to calculateRepMetrics: negative, zero,
\* positive and NaN
MetricVelocities == {Norm(-1, 10), R(0), Norm(1, 10), Norm(3, 10), NaN}

MetricFrameSeqs(n) ==
    {[i \in 1..n |-> FrameOf(i - 1, vs[i])] : vs \in [1..n -> MetricVelocities]}

\* calculateRepMetrics called with one interval, emitted by detectRepetitions or not
InitReps ==
    /\ scenario = "physics" /\ TrackIdle /\ velocityRef = [vx |-> 0, vy |-> 0] /\ BvtIdle
    /\ WorkflowIdle
    /\ physPc = "reps"
    /\ trackingPoints = <<>> /\ pixelsPerMeter = 1 /\ mass = 1
    /\ \E n \in 0..MaxRepFrames :
        /\ processedData \in MetricFrameSeqs(n)
        /\ \E from \in 0..n, to \in -1..n :
                reps = <<[startIndex |-> from, endIndex |-> to]>>
    /\ velocityThreshold = R(0) /\ minRepDurationMs = 0
    /\ repMetrics = <<>>

Process ==
    /\ physPc = "input"
    /\ processedData' = processTrackingData(trackingPoints, pixelsPerMeter, mass)
    /\ physPc' = "processed"
    /\ UNCHANGED <<trackingPoints, pixelsPerMeter, mass, velocityThreshold,
                   minRepDurationMs, reps, repMetrics, scenario, trackVars, bvtVars, workflowVars>>

Detect ==
    /\ physPc \in {"processed", "frames"}
    /\ \E th \in Thresholds, md \in MinDurations :
        /\ velocityThreshold' = th
        /\ minRepDurationMs' = md
        /\ reps' = detectRepetitions(processedData, th, md)
    /\ physPc' = "detected"
    /\ UNCHANGED <<trackingPoints, pixelsPerMeter, mass, processedData, repMetrics,
                   scenario, trackVars, bvtVars, workflowVars>>

\* velocities under REP_END_VELOCITY, equal to it and above the default threshold
TwoThresholdVelocities == {Norm(3, 100), REP_END_VELOCITY, Norm(2, 10)}
\* the default velocityThreshold and one under REP_END_VELOCITY
TwoThresholdThresholds == {Norm(1, 10), Norm(3, 100)}

InitFramesTwoThreshold ==
    /\ scenario = "physics" /\ TrackIdle /\ velocityRef = [vx |-> 0, vy |-> 0] /\ BvtIdle
    /\ WorkflowIdle
    /\ physPc = "framesTwoThreshold"
    /\ trackingPoints = <<>> /\ pixelsPerMeter = 1 /\ mass = 1
    /\ \E n \in 0..MaxFrames :
            processedData \in {[i \in 1..n |-> FrameOf(i - 1, vs[i])] :
                                  vs \in [1..n -> TwoThresholdVelocities]}
    /\ velocityThreshold = R(0) /\ minRepDurationMs = 0
    /\ reps = <<>> /\ repMetrics = <<>>

DetectTwoThreshold ==
    /\ physPc = "framesTwoThreshold"
    /\ \E th \in TwoThresholdThresholds :
        /\ velocityThreshold' = th
        /\ reps' = detectRepetitionsTwoThreshold(processedData, th)
    /\ minRepDurationMs' = 150
    /\ physPc' = "detectedTwoThreshold"
    /\ UNCHANGED <<trackingPoints, pixelsPerMeter, mass, processedData, repMetrics,
                   scenario, trackVars, bvtVars, workflowVars>>

Measure ==
    /\ physPc \in {"detected", "reps"}
    /\ repMetrics' = calculateRepMetrics(processedData, reps)
    /\ physPc' = "measured"
    /\ UNCHANGED <<trackingPoints, pixelsPerMeter, mass, processedData, velocityThreshold,
                   minRepDurationMs, reps, scenario, trackVars, bvtVars, workflowVars>>

PhysNext == Process \/ Detect \/ DetectTwoThreshold \/ Measure

SpecPhysics ==
    /\ InitPipeline \/ InitFrames \/ InitFramesTwoThreshold \/ InitLinear \/ InitReps
    /\ [][PhysNext]_vars

\* a step of the TrackingState component
TrackingStateStep == TrackingStateNext /\ UNCHANGED <<physVars, bvtVars, workflowVars>>

\* one run of the tracking effect over a video that has a frame for each seek
InitSingleRun == InitTrackingState /\ scenario \in {"footage", "occlusion"}

\* the browser settles every pending seek: while the seeked event of a run is
\* due it is eventually delivered (unless an error event comes first); the
\* continuation of the seek always changes the variables of its run
SpecSingleRun ==
    /\ InitSingleRun
    /\ [][TrackingStateStep]_vars
    /\ WF_sessions(\E s \in Sessions : Seeked(s) /\ UNCHANGED <<physVars, bvtVars, workflowVars>>)

TrackerNext ==
    \/ TrackingStateNext /\ UNCHANGED <<physVars, bvtVars, workflowVars>>
    \/ VelocityTrackerNext /\ UNCHANGED <<physVars, workflowVars>>

SpecTracker == (InitTrackingState \/ InitVelocityTracker) /\ [][TrackerNext]_vars

-----------------------------------------------------------------------------
(* BarbellTracker.tsx: the workflow upload -> calibration -> tracking ->    *)
(* review.  A handler runs when the component rendered for the current     *)
(* state (lines 81-114) calls it.                                          *)

\* files the user can select
VideoFiles == {[name |-> "squat.mp4"], [name |-> "bench.mp4"], [name |-> "deadlift.mp4"]}
\* results of CalibrationState: the sleeve circle drawn at three scales
Calibrations ==
    {[pixelsPerMeter |-> ppm, circleCenter |-> CircleCenter, circleRadius |-> CircleRadius] :
        ppm \in {1, 2, 4}}
\* the mass prop of BarbellTracker
WorkflowMasses == {1, 3}
\* the trajectory of heights ys, one point per frame
UniformTrajectory(ys) ==
    [i \in 1..Len(ys) |-> [x |-> 0, y |-> R(ys[i]), time |-> (i - 1) * StepTicks]]
\* trajectories handed over by TrackingState: none, too short, rising, falling
WorkflowTrajectories ==
    {UniformTrajectory(ys) : ys \in {<<>>, <<0, 1>>, <<0, 1, 2>>, <<2, 1, 0>>}}

InitWorkflow ==
    /\ scenario = "workflow"
    /\ WorkflowIdle
    /\ TrackIdle /\ velocityRef = [vx |-> 0, vy |-> 0] /\ BvtIdle /\ PhysIdle

workflowFrame == <<physPc, trackingPoints, pixelsPerMeter, mass, velocityThreshold,
                   minRepDurationMs, reps, repMetrics, scenario, trackVars, bvtVars>>

\* lines 31-34, called by UploadState (lines 83-85)
handleVideoSelected ==
    /\ scenario = "workflow"
    /\ state = "upload"
    /\ \E file \in VideoFiles : videoFile' = file
    /\ state' = "calibration"
    /\ workflowEvent' = "videoSelected"
    /\ UNCHANGED <<calibration, processedData, workflowFrame>>

\* lines 37-45, called by CalibrationState (lines 87-93)
handleCalibrationComplete ==
    /\ scenario = "workflow"
    /\ state = "calibration" /\ videoFile # Null
    /\ \E c \in Calibrations : calibration' = c
    /\ state' = "tracking"
    /\ workflowEvent' = "calibrationComplete"
    /\ UNCHANGED <<videoFile, processedData, workflowFrame>>

\* lines 48-61, called by TrackingState (lines 95-103)
handleTrackingComplete ==
    /\ scenario = "workflow"
    /\ state = "tracking" /\ videoFile # Null /\ calibration # Null
    /\ \E points \in WorkflowTrajectories, m \in WorkflowMasses :
        IF calibration = Null
        THEN UNCHANGED <<processedData, state>>
        ELSE /\ processedData' = processTrackingData(points, calibration.pixelsPerMeter, m)
             /\ state' = "review"
    /\ workflowEvent' = "trackingComplete"
    /\ UNCHANGED <<videoFile, calibration, workflowFrame>>

\* lines 64-66, called by ReviewState (lines 105-112)
handleSave ==
    /\ scenario = "workflow"
    /\ state = "review"
    /\ workflowEvent' = "save"
    /\ UNCHANGED <<state, videoFile, calibration, processedData, workflowFrame>>

\* variant of handleReset: the file and the calibration are dropped but the
\* workflow steps back to the calibration only
handleReset_toCalibration ==
    /\ scenario = "workflow"
    /\ state = "review"
    /\ videoFile' = Null /\ calibration' = Null /\ processedData' = <<>>
    /\ state' = "calibration"
    /\ workflowEvent' = "reset"
    /\ UNCHANGED workflowFrame

\* lines 69-74, called by ReviewState (lines 105-112)
handleReset ==
    /\ scenario = "workflow"
    /\ state = "review"
    /\ videoFile' = Null /\ calibration' = Null /\ processedData' = <<>>
    /\ state' = "upload"
    /\ workflowEvent' = "reset"
    /\ UNCHANGED workflowFrame

\* lines 77-79, called by CalibrationState with 'upload' (line 91) and by
\* TrackingState with 'calibration' (line 101)
handleBack ==
    /\ scenario = "workflow"
    /\ \E targetState \in {"upload", "calibration"} :
        /\ \/ state = "calibration" /\ videoFile # Null /\ targetState = "upload"
           \/ state = "tracking" /\ videoFile # Null /\ calibration # Null
                /\ targetState = "calibration"
        /\ state' = targetState
    /\ workflowEvent' = "back"
    /\ UNCHANGED <<videoFile, calibration, processedData, workflowFrame>>

WorkflowNext ==
    \/ handleVideoSelected \/ handleCalibrationComplete \/ handleTrackingComplete
    \/ handleSave \/ handleReset \/ handleBack

SpecWorkflow == InitWorkflow /\ [][WorkflowNext]_vars


-----------------------------------------------------------------------------
(* Properties of barbell-physics.ts, checked under SpecPhysics *)

\* C1: processTrackingData returns one frame per trajectory point, with the
\* point's time, when the trajectory has 3 or more points, and the empty
\* sequence when it has fewer, for every pixelsPerMeter and mass.
C1_LengthPreserved ==
    physPc = "processed" =>
        IF Len(trackingPoints) >= 3
        THEN /\ Len(processedData) = Len(trackingPoints)
             /\ \A i \in 1..Len(trackingPoints) :
                    processedData[i].time = trackingPoints[i].time
        ELSE processedData = <<>>

C1_Witness ==
    /\ physPc = "processed"
    /\ Len(trackingPoints) = 3
    /\ Len(processedData) = 3
    /\ processedData[3].time = trackingPoints[3].time
    /\ processedData[3].time > 0

\* C2 (as claimed): every repetition emitted by detectRepetitions has
\* endIndex - startIndex >= minFrames = ceil(minRepDurationMs / 1000 * 30).
C2_RepMinLength ==
    physPc = "detected" =>
        \A k \in 1..Len(reps) :
            reps[k].endIndex - reps[k].startIndex >= minFramesOf(minRepDurationMs)

\* C7 (as claimed): processTrackingData returns the empty sequence whenever
\* pixelsPerMeter <= 0 or mass <= 0.
C7_EmptyOnBadParams ==
    (physPc = "processed" /\ (pixelsPerMeter <= 0 \/ mass <= 0)) => processedData = <<>>

ConstantY(points) == \A i, j \in 1..Len(points) : points[i].y = points[j].y
IncreasingTimes(points) == \A i \in 1..Len(points) - 1 : points[i].time < points[i + 1].time

\* C10: a trajectory of 3 or more points, strictly increasing in time and
\* constant in pixel Y, processed with pixelsPerMeter > 0, has velocity 0,
\* acceleration 0 and force = smoothedForce = mass * 9.81 at every frame.
C10_GravityBaseline ==
    (/\ physPc = "processed"
     /\ Len(trackingPoints) >= 3
     /\ IncreasingTimes(trackingPoints)
     /\ ConstantY(trackingPoints)
     /\ pixelsPerMeter > 0) =>
        \A i \in 1..Len(processedData) :
            /\ processedData[i].velocity = R(0)
            /\ processedData[i].acceleration = R(0)
            /\ processedData[i].force = RMul(R(mass), Norm(981, 100))
            /\ processedData[i].smoothedForce = RMul(R(mass), Norm(981, 100))

C10_Witness ==
    /\ physPc = "processed"
    /\ Len(trackingPoints) >= 3
    /\ ConstantY(trackingPoints)
    /\ RGt(trackingPoints[1].y, R(0))
    /\ pixelsPerMeter > 0
    /\ mass > 1
    /\ Len(processedData) = Len(trackingPoints)
    /\ processedData[1].smoothedForce = RMul(R(mass), Norm(981, 100))

\* C11: the linear lift (0.5 m in 1.0 s, 31 samples, pixelsPerMeter 1000,
\* mass 100) run through processTrackingData, detectRepetitions and
\* calculateRepMetrics with the default threshold and minimum duration gives
\* exactly one repetition, with meanVelocity 0.5 m/s and peakForce mass * 9.81.
C11_LinearLift ==
    (/\ physPc = "measured"
     /\ trackingPoints = LinearTrajectory
     /\ velocityThreshold = Norm(3, 100)
     /\ minRepDurationMs = DefaultMinRepDurationMs) =>
        /\ Len(reps) = 1
        /\ Len(repMetrics) = 1
        /\ repMetrics[1].meanVelocity = Norm(1, 2)
        /\ repMetrics[1].peakForce = RMul(R(mass), GRAVITY)

C11_Witness ==
    /\ physPc = "measured"
    /\ trackingPoints = LinearTrajectory
    /\ pixelsPerMeter = 1000 /\ mass = 100
    /\ velocityThreshold = Norm(3, 100)
    /\ minRepDurationMs = DefaultMinRepDurationMs
    /\ Len(processedData) = FrameRate + 1
    /\ reps = <<[startIndex |-> 0, endIndex |-> FrameRate]>>
    /\ repMetrics[1].peakForce = R(981)

\* the indices of [startIndex, endIndex] that hold a frame of positive velocity
PositiveSamples(data, r) ==
    {i \in r.startIndex..r.endIndex :
        i >= 0 /\ i < Len(data) /\ RGt(data[i + 1].velocity, R(0))}

RECURSIVE SumOfVelocities(_, _)
SumOfVelocities(data, indices) ==
    IF indices = {} THEN R(0)
    ELSE LET i == CHOOSE k \in indices : TRUE
         IN  RAdd(data[i + 1].velocity, SumOfVelocities(data, indices \ {i}))

\* C20: for every repetition passed to calculateRepMetrics, meanVelocity is
\* the average of velocity over exactly the samples of [startIndex, endIndex]
\* with velocity > 0, and 0 when there is none; the division never has a zero
\* divisor, so the mean of finite velocities is finite, for an empty interval too.
C20_MeanOverPositive ==
    physPc = "measured" =>
        \A k \in 1..Len(reps) :
            \E pos \in {PositiveSamples(processedData, reps[k])} :
                /\ repMetrics[k].meanVelocity =
                        IF pos = {} THEN R(0)
                        ELSE RDiv(SumOfVelocities(processedData, pos), R(Cardinality(pos)))
                /\ (\A i \in pos : IsFinite(processedData[i + 1].velocity))
                        => IsFinite(repMetrics[k].meanVelocity)

C20_Witness ==
    /\ physPc = "measured"
    /\ Len(reps) = 1
    /\ reps[1] = [startIndex |-> 0, endIndex |-> 2]
    /\ Len(processedData) = 3
    /\ processedData[1].velocity = Norm(1, 10)
    /\ processedData[2].velocity = Norm(-1, 10)
    /\ processedData[3].velocity = Norm(3, 10)
    /\ repMetrics[1].meanVelocity = Norm(1, 5)

\* whether an open repetition closes at velocity v
Closes(v, on, off, rule) ==
    IF rule = "atOrBelowOff" THEN RLe(v, off)
    ELSE RLe(v, on) /\ RLt(v, off)        \* "belowOffNotAboveOn"

\* the intervals [opening index, closing index - 1] of the rule: a repetition
\* opens at the first index with velocity > on while none is open and closes
\* at the first later index where Closes holds; one still open at the end of
\* the data runs to the last index
RECURSIVE OpenIntervals(_, _, _, _, _, _)
OpenIntervals(data, on, off, rule, i, stArg) ==
    Let1(stArg, LAMBDA st :       \* st = [open, start, found]
        IF i >= Len(data)
        THEN IF st.open
             THEN st.found \cup {[startIndex |-> st.start, endIndex |-> Len(data) - 1]}
             ELSE st.found
        ELSE IF ~st.open /\ RGt(data[i + 1].velocity, on)
             THEN OpenIntervals(data, on, off, rule, i + 1,
                                [open |-> TRUE, start |-> i, found |-> st.found])
        ELSE IF st.open /\ Closes(data[i + 1].velocity, on, off, rule)
             THEN OpenIntervals(data, on, off, rule, i + 1,
                                [open |-> FALSE, start |-> st.start,
                                 found |-> st.found \cup {[startIndex |-> st.start,
                                                           endIndex |-> i - 1]}])
        ELSE OpenIntervals(data, on, off, rule, i + 1, st))

\* the emitted repetitions are intervals of the rule, and every interval of
\* the rule with endIndex - startIndex >= minSpan is emitted
EmitsIntervalsOf(emitted, intervals, minSpan) ==
    /\ \A k \in 1..Len(emitted) : emitted[k] \in intervals
    /\ \A c \in intervals :
            c.endIndex - c.startIndex >= minSpan => \E k \in 1..Len(emitted) : emitted[k] = c

NoneOpen == [open |-> FALSE, start |-> 0, found |-> {}]

\* C18 (as claimed): in both versions of detectRepetitions a repetition opens
\* at the first index with velocity above the on-threshold while none is open
\* and closes at the first later index with velocity at or below the
\* off-threshold, the off-threshold is never greater than the on-threshold,
\* and the emitted intervals are [opening index, closing index - 1].
C18_OpenClose ==
    /\ physPc = "detected" =>
            EmitsIntervalsOf(reps,
                OpenIntervals(processedData, velocityThreshold, velocityThreshold,
                              "atOrBelowOff", 0, NoneOpen),
                minFramesOf(minRepDurationMs))
    /\ physPc = "detectedTwoThreshold" =>
            /\ RLe(REP_END_VELOCITY, velocityThreshold)
            /\ EmitsIntervalsOf(reps,
                    OpenIntervals(processedData, velocityThreshold, REP_END_VELOCITY,
                                  "atOrBelowOff", 0, NoneOpen),
                    5)

\* C18 (amended): a repetition opens at the first index with velocity above
\* the on-threshold while none is open.  In barbell-physics.ts it closes at
\* the first later index with velocity at or below that same threshold.  In
\* the two-threshold version the off-threshold is the fixed 0.05, whatever
\* the on-threshold, and the repetition closes at the first later index with
\* velocity strictly below 0.05 and not above the on-threshold; a velocity of
\* exactly 0.05 keeps it open.  The emitted intervals are
\* [opening index, closing index - 1].
C18_OpenCloseExact ==
    /\ physPc = "detected" =>
            EmitsIntervalsOf(reps,
                OpenIntervals(processedData, velocityThreshold, velocityThreshold,
                              "atOrBelowOff", 0, NoneOpen),
                minFramesOf(minRepDurationMs))
    /\ physPc = "detectedTwoThreshold" =>
            EmitsIntervalsOf(reps,
                OpenIntervals(processedData, velocityThreshold, REP_END_VELOCITY,
                              "belowOffNotAboveOn", 0, NoneOpen),
                5)

\* six frames above 0.1 m/s, then one at exactly 0.05: the repetition stays open
C18_Witness ==
    /\ physPc = "detectedTwoThreshold"
    /\ velocityThreshold = Norm(1, 10)
    /\ Len(processedData) = 7
    /\ \A i \in 1..6 : processedData[i].velocity = Norm(2, 10)
    /\ processedData[7].velocity = REP_END_VELOCITY
    /\ reps = <<[startIndex |-> 0, endIndex |-> 6]>>

\* C19 (as claimed): the minimum-length criterion of detectRepetitions is the
\* same for a repetition still open at the end of the data and for one closed
\* before it: two intervals with the same number of frames are both emitted
\* or both discarded.
C19_SameCriterion ==
    physPc = "detected" =>
        \E intervals \in {OpenIntervals(processedData, velocityThreshold, velocityThreshold,
                                         "atOrBelowOff", 0, NoneOpen)} :
            \A c1, c2 \in intervals :
                c1.endIndex - c1.startIndex = c2.endIndex - c2.startIndex =>
                    ((\E k \in 1..Len(reps) : reps[k] = c1)
                        <=> (\E k \in 1..Len(reps) : reps[k] = c2))

-----------------------------------------------------------------------------
(* Claims about the trackers *)

DistSq(ax, ay, bx, by) == (ax - bx) * (ax - bx) + (ay - by) * (ay - by)

\* the distance of two positions is at most bound, up to the rounding unit of
\* the fixed-point arithmetic
Within(ax, ay, bx, by, bound) == Sqrt(DistSq(ax, ay, bx, by)) <= bound + 1

\* the run of the tracking effect that owns trackingPointsRef
CurrentSession ==
    CHOOSE s \in Sessions :
        sessions[s].pc # "none" /\ (s = MaxSessions \/ sessions[s + 1].pc = "none")

ConsecutiveCalls ==
    /\ lastCall # Null /\ prevCall # Null
    /\ ~lastCall.isFirstFrame /\ prevCall.session = lastCall.session

maxMoveOf(call) == CircleRadius * 3 + call.speed

\* C4 as stated: on every frame with an accepted match (confidence above 0,
\* re-acquisition included) the returned position lies within the clamp bound
\* of the predicted position: maxMove in trackFrame, maxStep in findTemplate.
C4_AcceptedWithinClamp ==
    /\ (lastCall # Null /\ lastCall.confidence > 0) =>
            Within(lastCall.x, lastCall.y, lastCall.predictedPos.x, lastCall.predictedPos.y,
                   maxMoveOf(lastCall))
    /\ (lastFind # Null /\ lastFind.kind = "found") =>
            Within(lastFind.x, lastFind.y, lastFind.pred.x, lastFind.pred.y, lastFind.maxStep)

\* C4 amended: a local match accepted by trackFrame moves each coordinate by
\* at most maxMove from the last position (not from the predicted one); a
\* match of the re-acquisition scan is a grid point anywhere in the frame,
\* with no bound on its distance; a match found by findTemplate lies within
\* maxStep of the predicted position.
C4_ClampPerTracker ==
    /\ (lastCall # Null /\ lastCall.kind = "accepted") =>
            /\ Abs(lastCall.x - lastCall.lastPos.x) <= maxMoveOf(lastCall)
            /\ Abs(lastCall.y - lastCall.lastPos.y) <= maxMoveOf(lastCall)
    /\ (lastCall # Null /\ lastCall.kind = "reacquired") =>
            /\ lastCall.x \in 0..(Canvas.width * PxScale - 1)
            /\ lastCall.y \in 0..(Canvas.height * PxScale - 1)
    /\ (lastFind # Null /\ lastFind.kind = "found") =>
            Within(lastFind.x, lastFind.y, lastFind.pred.x, lastFind.pred.y, lastFind.maxStep)

\* a re-acquired match farther from the prediction than maxMove
C4_Witness ==
    /\ lastCall # Null /\ lastCall.kind = "reacquired" /\ lastCall.confidence > 0
    /\ ~Within(lastCall.x, lastCall.y, lastCall.predictedPos.x, lastCall.predictedPos.y,
               maxMoveOf(lastCall))

\* C5: once the cancellation flag of a run of the tracking effect is set,
\* that run hands no further frame to trackFrame, appends no further point
\* and never calls onTrackingComplete.
C5_CancelledSessionInert ==
    [][\A s \in Sessions : sessions[s].isCancelled =>
            /\ sessions'[s].frameCount = sessions[s].frameCount
            /\ sessions'[s].completed = sessions[s].completed
            /\ trackedFrames' # trackedFrames => lastCall'.session # s
            /\ Len(trackingPointsRef') > Len(trackingPointsRef) => lastCall'.session # s
            /\ Len(completeCalls') > Len(completeCalls)
                    => completeCalls'[Len(completeCalls')].session # s]_vars

\* a run cancelled while its seek was pending has observed the flag and returned
C5_Witness ==
    \E s \in Sessions :
        /\ sessions[s].isCancelled /\ sessions[s].pc = "returned"
        /\ sessions[s].frameCount >= 1 /\ ~sessions[s].seekFailed
        /\ status # "error"

\* C6 as stated: when the first frame of a run of the tracking effect is
\* processed, the velocity estimate is zero, the loss count is zero and the
\* trajectory is empty, whatever an earlier run left behind.
C6_FreshSessionState ==
    (lastCall # Null /\ lastCall.isFirstFrame) =>
        /\ lastCall.entry.velocity = [vx |-> 0, vy |-> 0]
        /\ lastCall.entry.consecutiveLossCount = 0
        /\ lastCall.trajectory = 0

\* C8: the times of the trajectory of the seek loop increase strictly and
\* none exceeds the video duration.
C8_TimesIncrease ==
    scenario \in TrackingStateScenarios =>
        /\ \A i \in 1..(Len(trackingPointsRef) - 1) :
                trackingPointsRef[i].time < trackingPointsRef[i + 1].time
        /\ \A i \in 1..Len(trackingPointsRef) :
                trackingPointsRef[i].time <= sessions[CurrentSession].endTime

C8_Witness ==
    /\ scenario \in TrackingStateScenarios
    /\ Len(trackingPointsRef) >= 3

C12_LossCounterCapped ==
    /\ consecutiveLossCountRef \in 0..5
    /\ lostFramesRef \in 0..10

\* a frame lost while the counter of TrackingState already stood at its cap
C12_Witness ==
    /\ lastCall # Null
    /\ lastCall.entry.consecutiveLossCount = 5
    /\ lastCall.path = "scanNoMatch"
    /\ consecutiveLossCountRef = 5

\* the paths of trackFrame on which the local match was accepted / rejected,
\* on which no match was accepted after a rejected local match, and on which
\* the block of the full-frame scan was entered
LocalAccepted(path) == path \in {"accepted", "sampleThrew"}
LocalRejected(path) == path \in {"rejectedNoScan", "scanThrew", "scanNoMatch", "reacquired"}
NoMatchAccepted(path) == path \in {"rejectedNoScan", "scanThrew", "scanNoMatch"}
ScanEntered(path) == path \in {"scanThrew", "scanNoMatch", "reacquired"}

\* C13: when trackFrame returns an accepted match, from the local window or
\* from the re-acquisition scan, the loss count is 0 on return, and when it
\* returns confidence 0 after a rejected match the loss count is above 0;
\* findTemplate leaves lostFrames at 0 on a found frame and above 0 on a
\* lost one.
C13_CounterTellsOutcome ==
    /\ lastCall # Null =>
            /\ lastCall.path \in {"accepted", "reacquired"} =>
                    lastCall.confidence > 0 /\ consecutiveLossCountRef = 0
            /\ NoMatchAccepted(lastCall.path) =>
                    lastCall.confidence = 0 /\ consecutiveLossCountRef > 0
    /\ lastFind # Null =>
            /\ lastFind.kind = "found" => lostFramesRef = 0
            /\ lastFind.kind = "lost" => lostFramesRef > 0

\* a re-acquisition after lost frames has reset the counter
C13_Witness ==
    /\ lastCall # Null /\ lastCall.path = "reacquired"
    /\ lastCall.entry.consecutiveLossCount >= 1
    /\ consecutiveLossCountRef = 0

\* C14: trackFrame enters the full-frame re-acquisition scan in a frame
\* exactly when the local match of the frame was rejected and the loss count,
\* incremented for the frame, is at least 2: never when the local match was
\* accepted, never on a lost frame right after an accepted one, and on every
\* lost frame that directly follows a lost frame with no match accepted.
C14_ScanFromSecondLoss ==
    lastCall # Null =>
        /\ ScanEntered(lastCall.path) <=>
                /\ LocalRejected(lastCall.path)
                /\ Min(5, lastCall.entry.consecutiveLossCount + 1) >= 2
        /\ LocalAccepted(lastCall.path) => ~ScanEntered(lastCall.path)
        /\ prevCall # Null =>
                /\ (prevCall.path \in {"accepted", "reacquired"} /\ LocalRejected(lastCall.path))
                        => ~ScanEntered(lastCall.path)
                /\ (NoMatchAccepted(prevCall.path) /\ LocalRejected(lastCall.path))
                        => ScanEntered(lastCall.path)

\* the third lost frame in a row: the scan ran in the second and runs again
C14_Witness ==
    /\ lastCall # Null /\ prevCall # Null
    /\ prevCall.path = "scanNoMatch" /\ lastCall.path = "scanNoMatch"
    /\ lastCall.entry.consecutiveLossCount = 2

\* the velocity estimate after lines 370-382 of a call, computed from the
\* refs and the last position the call was entered with
SmoothedVelocity(call) ==
    IF call.entry.prevPosition # Null /\ ~call.isFirstFrame
    THEN [vx |-> Trunc((call.lastPos.x - call.entry.prevPosition.x) * 7
                            + call.entry.velocity.vx * 3, 10),
          vy |-> Trunc((call.lastPos.y - call.entry.prevPosition.y) * 7
                            + call.entry.velocity.vy * 3, 10)]
    ELSE call.entry.velocity

\* C15 (as claimed): with an empty search window trackFrame returns the last
\* position with confidence 0 and leaves the velocity estimate, the loss
\* count, the reference colour and the previous position unchanged.
C15_EmptyWindowNoChange ==
    (lastCall # Null /\ lastCall.path = "emptyWindow") =>
        /\ lastCall.x = lastCall.lastPos.x /\ lastCall.y = lastCall.lastPos.y
        /\ lastCall.confidence = 0
        /\ Refs = lastCall.entry

\* C15 (amended): with an empty search window trackFrame returns the last
\* position with confidence 0 and leaves the loss count, the reference
\* colour and the previous position unchanged; the velocity estimate has
\* already taken its 70/30 update towards last position - previous position
\* (when a previous position is stored and the frame is not the first one).
C15_EmptyWindowKeepsAllButVelocity ==
    (lastCall # Null /\ lastCall.path = "emptyWindow") =>
        /\ lastCall.x = lastCall.lastPos.x /\ lastCall.y = lastCall.lastPos.y
        /\ lastCall.confidence = 0
        /\ consecutiveLossCountRef = lastCall.entry.consecutiveLossCount
        /\ referenceColorRef = lastCall.entry.referenceColor
        /\ prevPositionRef = lastCall.entry.prevPosition
        /\ velocityRef = SmoothedVelocity(lastCall)

\* an empty window after a re-acquisition jump: the velocity estimate moved
C15_Witness ==
    /\ lastCall # Null /\ lastCall.path = "emptyWindow"
    /\ velocityRef # lastCall.entry.velocity
    /\ prevPositionRef = lastCall.entry.prevPosition

\* line 390-394: the predicted position of a call
PredictedPosition(call) ==
    LET lead10 == 8 + Min(20, 4 * call.entry.consecutiveLossCount)
        v == SmoothedVelocity(call)
    IN  [x |-> call.lastPos.x + Trunc(v.vx * lead10, 10),
         y |-> call.lastPos.y + Trunc(v.vy * lead10, 10)]

\* 0.9 times the velocity estimate of a call
DecayedVelocity(call) ==
    [vx |-> Trunc(SmoothedVelocity(call).vx * 9, 10),
     vy |-> Trunc(SmoothedVelocity(call).vy * 9, 10)]

\* C16 (as claimed): in a frame where no match is accepted trackFrame returns
\* confidence 0 with the predicted position, last position + velocity * lead,
\* lead = 0.8 + min(2, 0.4 * loss count), and multiplies both components of
\* the velocity estimate by 0.9.
C16_LostReturnsPrediction ==
    (lastCall # Null /\ NoMatchAccepted(lastCall.path)) =>
        /\ lastCall.confidence = 0
        /\ lastCall.x = PredictedPosition(lastCall).x
        /\ lastCall.y = PredictedPosition(lastCall).y
        /\ velocityRef = DecayedVelocity(lastCall)

\* C16 (amended): in a frame where no match is accepted trackFrame returns
\* confidence 0 with the predicted position clamped into the frame,
\* 0..width by 0..height; the prediction is last position + velocity * lead
\* with the velocity estimate as updated in this call and lead = 0.8 +
\* min(2, 0.4 * loss count before the call); both components of the velocity
\* estimate are multiplied by 0.9.
C16_LostReturnsClampedPrediction ==
    (lastCall # Null /\ NoMatchAccepted(lastCall.path)) =>
        /\ lastCall.confidence = 0
        /\ lastCall.x = Clamp(0, Canvas.width * PxScale, PredictedPosition(lastCall).x)
        /\ lastCall.y = Clamp(0, Canvas.height * PxScale, PredictedPosition(lastCall).y)
        /\ velocityRef = DecayedVelocity(lastCall)

\* a lost frame whose prediction lies beyond the right border, after lost
\* frames have raised the lead
C16_Witness ==
    /\ lastCall # Null /\ NoMatchAccepted(lastCall.path)
    /\ lastCall.entry.consecutiveLossCount >= 1
    /\ PredictedPosition(lastCall).x > Canvas.width * PxScale
    /\ lastCall.x = Canvas.width * PxScale
    /\ velocityRef # [vx |-> 0, vy |-> 0]

\* C17: once a reference colour is captured, a frame that is not the first of
\* its run changes it only if the local match is accepted with confidence
\* above 0.55, and then each channel becomes 0.9 * old + 0.1 * sampled; every
\* other frame (accepted with lower confidence, re-acquired, lost, empty
\* window) leaves it unchanged.
C17_ColourAdaptsOnConfidentMatch ==
    (/\ lastCall # Null /\ ~lastCall.isFirstFrame
     /\ lastCall.entry.referenceColor # Null) =>
        IF lastCall.path = "accepted" /\ lastCall.confidence > 550
        THEN referenceColorRef =
                [r |-> Trunc(lastCall.entry.referenceColor.r * 9 + SampledColor.r, 10),
                 g |-> Trunc(lastCall.entry.referenceColor.g * 9 + SampledColor.g, 10),
                 b |-> Trunc(lastCall.entry.referenceColor.b * 9 + SampledColor.b, 10)]
        ELSE referenceColorRef = lastCall.entry.referenceColor

\* a confident match of a later frame has moved the colour towards the sample
C17_Witness ==
    /\ lastCall # Null /\ ~lastCall.isFirstFrame
    /\ lastCall.entry.referenceColor = CapturedColor
    /\ lastCall.path = "accepted" /\ lastCall.confidence > 550
    /\ referenceColorRef # CapturedColor

-----------------------------------------------------------------------------
(* Further properties of the physics functions, checked under SpecPhysics *)

\* the largest pixel Y of a trajectory
LargestY(points) ==
    CHOOSE m \in {points[i].y : i \in 1..Len(points)} :
        \A j \in 1..Len(points) : RLe(points[j].y, m)

\* C21 (as claimed): for a valid pixelsPerMeter, the position that
\* processTrackingData hands to position smoothing is (maxY - y) / pixelsPerMeter
\* for every sample, maxY being the largest pixel Y of the trajectory, in
\* barbell-physics.ts (3 or more points) and in the rolling-window version (10
\* or more points).
C21_HeightAboveLargestY ==
    (physPc = "processed" /\ pixelsPerMeter > 0) =>
        /\ Len(trackingPoints) >= 10 =>
              \A i \in 1..Len(trackingPoints) :
                  metersTrace(trackingPoints, pixelsPerMeter)[i].pos =
                      RDiv(RSub(LargestY(trackingPoints), trackingPoints[i].y),
                           R(pixelsPerMeter))
        /\ Len(trackingPoints) >= 3 =>
              \A i \in 1..Len(trackingPoints) :
                  pixelsToMeters(trackingPoints, pixelsPerMeter)[i].y =
                      RDiv(RSub(LargestY(trackingPoints), trackingPoints[i].y),
                           R(pixelsPerMeter))

\* C22 (as claimed): when the two samples of a difference quotient have the
\* same timestamp, calculateVelocity and calculateAcceleration divide the
\* position or velocity difference by the nominal frame interval, so the
\* derivative is that difference over the nominal interval.
C22_NominalIntervalOnEqualTimes ==
    (physPc = "processed" /\ Len(trackingPoints) >= 3 /\ pixelsPerMeter > 0) =>
        \E positions \in {pixelsToMeters(trackingPoints, pixelsPerMeter)} :
        \E velocityData \in {calculateVelocity(positions)} :
        \E accelerationData \in {calculateAcceleration(velocityData)} :
            \A i \in 1..Len(positions) :
                \E a \in {Max(i - 1, 1)}, b \in {Min(i + 1, Len(positions))} :
                    positions[b].time - positions[a].time <= 0 =>
                        /\ velocityData[i].velocity =
                                RDiv(RSub(positions[a].y, positions[b].y),
                                     NOMINAL_FRAME_INTERVAL)
                        /\ accelerationData[i].acceleration =
                                RDiv(RSub(velocityData[b].velocity, velocityData[a].velocity),
                                     NOMINAL_FRAME_INTERVAL)

-----------------------------------------------------------------------------
(* Further properties of the trackers and their components, checked under  *)
(* SpecTracker                                                             *)

\* C23: whenever trackFrame reads the pixels of its local search window
\* (getImageData of line 414 is called), the window is not empty and lies
\* inside the frame.
C23_WindowInsideFrame ==
    (lastCall # Null /\ lastCall.path # "emptyWindow") =>
        /\ 0 <= lastCall.searchX /\ 0 <= lastCall.searchY
        /\ lastCall.searchW > 0 /\ lastCall.searchH > 0
        /\ lastCall.searchX + lastCall.searchW <= Canvas.width
        /\ lastCall.searchY + lastCall.searchH <= Canvas.height

\* a window read after being cut at the right border of the frame
C23_Witness ==
    /\ lastCall # Null /\ lastCall.path # "emptyWindow"
    /\ FloorPx(lastCall.searchRadius * 2) > lastCall.searchW
    /\ lastCall.searchX + lastCall.searchW = Canvas.width
    /\ lastCall.searchX > 0

\* C24: in the frame loop of TrackingState the frame for time t is handed to
\* trackFrame only after the seek to t has completed (the video stands at t
\* and no seek of the run is pending), a run has at most one seek outstanding
\* and only while it waits for it, the frames of a run are handed over in
\* increasing t, and every frame of a run but its first reads the tracker
\* state that the frame before it of the same run left.
C24_FrameSequential ==
    /\ lastCall # Null =>
            /\ lastCall.videoTime = lastCall.time
            /\ lastCall.pendingSeeks = 0
            /\ ~lastCall.isFirstFrame => lastCall.entry = lastCall.leftByPrevious
    /\ \A s \in Sessions :
            /\ sessions[s].pendingSeeks \in {0, 1}
            /\ sessions[s].pendingSeeks = 1 <=> sessions[s].pc = "seeking"
    /\ ConsecutiveCalls => lastCall.time > prevCall.time

\* a later frame of the second run of the effect, handed over while the seek
\* of the next frame is outstanding and after the tracker state has changed
C24_Witness ==
    /\ lastCall # Null /\ ConsecutiveCalls
    /\ lastCall.session = 2
    /\ lastCall.time > 0 /\ lastCall.videoTime = lastCall.time
    /\ lastCall.entry.consecutiveLossCount > 0
    /\ lastCall.entry = lastCall.leftByPrevious
    /\ sessions[2].pendingSeeks = 1 /\ sessions[2].currentTime > lastCall.time

\* C25 (as claimed): the trackingData accumulated by BarbellVelocityTracker
\* for one uploaded video holds no two points with the same time: every point
\* pushed by onFrame has a time strictly greater than the point pushed before it.
C25_TrackingDataTimesIncrease ==
    scenario \in VelocityTrackerScenarios =>
        \A i \in 1..(Len(trackingDataRef) - 1) :
            trackingDataRef[i].time < trackingDataRef[i + 1].time

\* a position of the frame [0, width] x [0, height]
InFrame(pos) ==
    /\ 0 <= pos.x /\ pos.x <= Canvas.width * PxScale
    /\ 0 <= pos.y /\ pos.y <= Canvas.height * PxScale

\* C26: with the initial position inside the frame, every position returned
\* by trackFrame lies inside [0, frame width] x [0, frame height], so the
\* previous position handed to the next call is within the frame again.
C26_PositionInsideFrame ==
    (scenario \in TrackingStateScenarios /\ InFrame(CircleCenter)) =>
        /\ lastCall # Null => InFrame(lastCall.lastPos) /\ InFrame(lastCall)
        /\ \A s \in Sessions : InFrame(sessions[s].lastPosition)
        /\ \A i \in 1..Len(trackingPointsRef) : InFrame(trackingPointsRef[i])

\* a lost frame whose prediction lies below the bottom border of the frame, in
\* a run that has moved from the selection towards the far corner
C26_Witness ==
    /\ lastCall # Null /\ lastCall.confidence = 0
    /\ lastCall.predictedPos.y > Canvas.height * PxScale
    /\ lastCall.y = Canvas.height * PxScale
    /\ \E i \in 1..Len(trackingPointsRef) :
            trackingPointsRef[i].x > CircleCenter.x /\ trackingPointsRef[i].y > CircleCenter.y

\* the number of iterations of the loop of run: t = 0, step, ... <= endTime
LoopSteps(s) == sessions[s].endTime \div StepTicks + 1

\* session s has stopped: no callback of it is pending
Stopped(s) == sessions[s].pc \in {"returned", "failed", "dead", "complete"}

\* C28 (as claimed): a run of the tracking effect that is never cancelled and
\* whose seeks all succeed calls onTrackingComplete in the end: a run that has
\* stopped without being cancelled and without a failed seek has called it.
C28_CompletesUnlessCancelledOrSeekFailed ==
    \A s \in Sessions :
        (Stopped(s) /\ ~sessions[s].isCancelled /\ ~sessions[s].seekFailed)
            => sessions[s].completed = 1

\* C28 (amended): a run of the tracking effect that is never cancelled, whose
\* video loads with a finite positive duration (the frame loop starts) and
\* whose seeks all succeed eventually calls onTrackingComplete; every run
\* calls it at most once, only when no seek is pending and no loop step is
\* still to come, and with a trajectory of exactly one point per loop step.
C28_CompletesOnceAfterLastStep ==
    /\ \A s \in Sessions :
            (sessions[s].pc = "seeking")
                ~> (sessions[s].completed = 1 \/ sessions[s].isCancelled
                        \/ sessions[s].seekFailed)
    /\ [](\A s \in Sessions :
            /\ sessions[s].completed \in {0, 1}
            /\ Cardinality({k \in 1..Len(completeCalls) : completeCalls[k].session = s})
                    = sessions[s].completed
            /\ sessions[s].completed = 1 =>
                    /\ sessions[s].pc = "complete"
                    /\ sessions[s].pendingSeeks = 0
                    /\ sessions[s].t > sessions[s].endTime
                    /\ sessions[s].frameCount = LoopSteps(s)
                    /\ \A k \in 1..Len(completeCalls) :
                            completeCalls[k].session = s
                                => Len(completeCalls[k].points) = LoopSteps(s))

\* a run has tracked every frame of the video and has called onTrackingComplete
C28_Witness ==
    /\ scenario \in {"footage", "occlusion"}
    /\ sessions[1].completed = 1 /\ ~sessions[1].isCancelled
    /\ Len(completeCalls) = 1
    /\ Len(completeCalls[1].points) = VideoFrames(scenario)
    /\ status = "complete"


\* C29: once a run of the tracking effect has been cancelled by the cleanup,
\* no callback of that run (a pending seek, a seek error, the error handler
\* of its video, its metadata handler) changes the status, the error message,
\* the progress or the current position of the component.
C29_CancelledRunIsSilent ==
    [][\A s \in Sessions :
            (sessions[s].isCancelled /\ sessions'[s] # sessions[s])
                => /\ status' = status
                   /\ errorMessage' = errorMessage
                   /\ progress' = progress
                   /\ currentPosition' = currentPosition]_vars


-----------------------------------------------------------------------------
(* Properties of the BarbellTracker workflow, checked under SpecWorkflow *)

\* C30: after any sequence of video-selected, calibration-complete,
\* tracking-complete, back and reset events the workflow state is one of
\* upload, calibration, tracking, review; in the states calibration and
\* tracking a video file is set; in the state tracking a calibration is set;
\* and the state review is entered only by a tracking-complete event handled
\* with a calibration that is not null.
C30_WorkflowConsistent ==
    /\ [](/\ state \in {"upload", "calibration", "tracking", "review"}
          /\ state \in {"calibration", "tracking"} => videoFile # Null
          /\ state = "tracking" => calibration # Null)
    /\ [][(state # "review" /\ state' = "review")
            => (workflowEvent' = "trackingComplete" /\ calibration # Null)]_vars

\* TrackingState has handed over a trajectory of three points, it has been
\* processed with the calibration and the review is shown
C30_Witness ==
    /\ scenario = "workflow"
    /\ state = "review" /\ workflowEvent = "trackingComplete"
    /\ videoFile # Null /\ calibration # Null
    /\ Len(processedData) = 3

=============================================================================
